---- MODULE Spec2Model ----
(***************************************************************************)
(* State-machine model of src/script.js (Monte de los Olivos, client-side  *)
(* script): the testimonial form, Utils.trapFocus, the cached event and    *)
(* donation modals with the AccessibilityManager focus handlers, the verse *)
(* of the day, and the cookie-consent banner.                              *)
(*                                                                         *)
(* Strings that the code measures or trims are sequences of characters.    *)
(* Every handler is one action: the browser runs a handler to completion.  *)
(* Timers are records in a queue; a timer may fire only when no timer with *)
(* a delay that is not longer was armed before it.                         *)
(***************************************************************************)
EXTENDS Integers, Sequences, FiniteSets, TLC

\* ------------------------------------------------------------------ bounds
MaxPad == 1           \* blanks typed before / after a field's text
MaxBody == 11         \* non-blank characters typed in the testimonial field
MaxTestimonios == 2   \* accepted testimonials per run
MaxFocusable == 3     \* focusable elements inside a trapped container
OutsideBefore == 1    \* focusable elements of the page before the container
OutsideAfter == 1     \* focusable elements of the page after the container
MaxTraps == 2         \* handleTabKey listeners installed on one container
MaxOpens == 2         \* open calls of the modals per run
MaxTimers == 2        \* setTimeout callbacks pending at once
MaxRotations == 3     \* calls of cambiarVersiculo that pick a verse, per run
MaxDay == 2           \* calendar days a run spans, counted from day 1
MaxPick == 2          \* entries of CONFIG.versiculos the random pick draws
MaxEmailLen == 5      \* characters of the generated e-mail inputs
MaxEntries == 2       \* entries one IntersectionObserver callback receives
MaxPending == 1       \* share or clipboard promises pending at once
MaxMissing == 2       \* elements missing from the document at once
MaxInits == 2         \* init calls of MonteOlivosApp that reach the modules
MaxScrolls == 3       \* scroll events per run
MaxArg == 2           \* distinct arguments of the debounced function
MaxCalls == 5         \* calls of the debounced function per run
MaxTabTimers == 2     \* fade-in timers of the gallery pending at once

\* ------------------------------------------------------- program constants
MinTestimonioLen == 10
ShowDelay == 10       \* ms before the class "visible" is added
HideDelay == 300      \* ms before a closing modal is hidden or removed
SwapDelay == 250      \* ms before the verse text is swapped
NumVersiculos == 6    \* CONFIG.versiculos.length
DigitsInPhone == 9    \* (6|7) and {8} of CONFIG.forms.phoneRegex
MinNombreLen == 2     \* nombre.length < 2
MinMensajeLen == 10   \* mensaje.length < 10
SendDelay == 2000     \* the simulated send of submitContactForm
BannerDelay == 1000   \* ms before the cookie banner is shown
ScrollThreshold == 300 \* window.scrollY > 300

VARIABLES
  testimonios,      \* AppState.testimonios
  formNombre,       \* #testimonioForm, field "nombre"
  formTestimonio,   \* #testimonioForm, field "testimonio"
  notice,           \* type of the notification shown last, "none" before any
  localStorage,     \* key -> stored value, Absent when the key is not set
  containerN,       \* focusable elements the trapped container holds
  trapHandlers,     \* handleTabKey listeners installed on the container
  activeElement,    \* document.activeElement
  modalExists,      \* this.modal of EventManager / DonationManager is created
  display,          \* this.modal.style.display
  visibleClass,     \* this.modal carries the class "visible"
  ownTraps,         \* traps the open call installed on .modal-content
  a11yTraps,        \* traps the modal-opened listener installed on it
  galleryModals,    \* the image modals created so far: open, fading, removed
  escHandlers,      \* the handleKeydown listeners on document, in order
  timers,           \* the pending setTimeout callbacks, in arming order
  lastFocusedElement, \* AppState.lastFocusedElement
  bodyOverflow,     \* document.body.style.overflow
  preOpenFocus,     \* per modal, document.activeElement when it was opened
  opens,            \* open calls so far
  versiculoDom,     \* #versiculo-texto and #recursos cite are in the page
  versiculoShown,   \* index of the verse displayed, 0 for the page's own text
  versiculoOpacity, \* style.opacity of the verse text and citation
  today,            \* the calendar day of new Date().toDateString()
  rotations,        \* calls of cambiarVersiculo that picked a verse
  checkRotations,   \* of these, the ones the daily check made today
  checkWriteFailures, \* of these, the ones whose setItem threw
  persistedBy,      \* the rotation whose write to ultimo_versiculo landed last
  verseReady,       \* setupVersiculoDelDia has run since the page loaded
  bannerVisible,    \* the cookie banner is shown
  gtmLoaded,        \* CookieManager.gtmLoaded
  hotjarLoaded,     \* CookieManager.hotjarLoaded
  gtmScripts,       \* gtm.js script elements appended to the head
  hotjarScripts,    \* Hotjar script elements appended to the head
  cookieLoad,       \* CookieManager on this load: pending, stored or empty
  contact,          \* #contactForm: its fields, error marks and submit button
  activeEntries,    \* data-target of the .menu-item elements of class active
  isMenuOpen,       \* AppState.isMenuOpen
  menuActive,       \* .menu-horizontal carries the class active
  ariaExpanded,     \* aria-expanded of .mobile-menu-toggle
  menuIcon,         \* the icon of .mobile-menu-toggle: bars or times
  highContrast,     \* document.body carries the class high-contrast
  listening,        \* the modules' listeners are attached
  navModules,       \* the Navigation instances of MonteOlivosApp.modules
  isInitialized,    \* MonteOlivosApp.isInitialized
  initFailed,       \* handleInitializationError has put up its message
  promises,         \* the pending navigator.share / clipboard.writeText calls
  clipboard,        \* the event whose invitation was copied last, or none
  eventContent,     \* what the cached event modal shows and its buttons act on
  present,          \* the elements the document has
  scrollY,          \* window.scrollY
  scrollVisible,    \* #scroll-to-top carries the class "visible"
  inThrottle,       \* inThrottle of the throttled scroll listener
  throttleTimers,   \* pending timers that reset inThrottle
  scrollStopped,    \* the user has stopped scrolling for good
  scrolls,          \* scroll events so far
  timeout,          \* timeout of the debounced function: a timer id, 0 unset
  debounceTimers,   \* the pending timers of the debounced function
  burst,            \* arguments of the calls since func last ran
  burstsStarted,    \* calls made while no call was waiting
  runs,             \* times func was applied
  calls,            \* calls of the debounced function so far
  tabButtons,       \* data-tab of the .tab-btn elements of the document
  tabPanels,        \* the tabs that have a #galeria-<tab> panel
  tabActive,        \* tab buttons of class active
  tabSelected,      \* tab buttons whose aria-selected is "true"
  panelShown,       \* panels without the class hidden
  panelAriaShown,   \* panels whose aria-hidden is "false"
  currentGalleryTab, \* AppState.currentGalleryTab
  panelOpacity,     \* style.opacity of each panel, "" when never set
  tabTimers,        \* the panels whose 50 ms fade-in is pending
  ev                \* the handler that ran last, with its inputs

formVars == <<testimonios, formNombre, formTestimonio, notice>>
trapVars == <<containerN, trapHandlers>>
modalVars ==
  <<modalExists, display, visibleClass, ownTraps, a11yTraps, galleryModals,
    escHandlers, timers, bodyOverflow>>
focusVars == <<lastFocusedElement, preOpenFocus>>
overlayVars == <<modalVars, focusVars, opens>>
verseDom == <<versiculoDom, versiculoShown, versiculoOpacity>>
verseVars ==
  <<verseDom, today, rotations, checkRotations, checkWriteFailures,
    persistedBy>>
tagVars == <<gtmLoaded, hotjarLoaded, gtmScripts, hotjarScripts>>
cookieVars == <<bannerVisible, tagVars, cookieLoad>>
appVars ==
  <<highContrast, listening, navModules, isInitialized, initFailed>>
shareVars == <<promises, clipboard>>
contentVars == <<eventContent>>
scrollVars ==
  <<scrollY, scrollVisible, inThrottle, throttleTimers, scrollStopped,
    scrolls>>
debounceVars == <<timeout, debounceTimers, burst, burstsStarted, runs, calls>>
galleryDom == <<tabButtons, tabPanels>>
tabState ==
  <<tabActive, tabSelected, panelShown, panelAriaShown, currentGalleryTab>>
galleryVars == <<galleryDom, tabState, panelOpacity, tabTimers>>
domVars == <<present, scrollVars, debounceVars, galleryVars>>
sideVars == <<contentVars, domVars>>
menuVars == <<isMenuOpen, menuActive, ariaExpanded, menuIcon>>
pageRest == <<contact, activeEntries, appVars, shareVars, sideVars>>
pageVars == <<menuVars, pageRest>>
nonMenuVars == <<verseVars, cookieVars, verseReady, pageRest>>
otherVars == <<verseVars, cookieVars, verseReady, pageVars>>
\* modalVars but for timers
stillModalVars ==
  <<modalExists, display, visibleClass, ownTraps, a11yTraps, galleryModals,
    escHandlers, bodyOverflow>>

vars ==
  <<formVars, localStorage, trapVars, activeElement, overlayVars, otherVars,
    ev>>

\* ----------------------------------------------------------------- strings
SP == " "
Absent == [kind |-> "absent"]
Json(v) == [kind |-> "json", val |-> v]

RECURSIVE Rep(_, _)
Rep(c, n) == IF n = 0 THEN <<>> ELSE <<c>> \o Rep(c, n - 1)

RECURSIVE TrimStart(_)
TrimStart(s) ==
  IF s = <<>> THEN s
  ELSE IF Head(s) = SP THEN TrimStart(Tail(s)) ELSE s

RECURSIVE TrimEnd(_)
TrimEnd(s) ==
  IF s = <<>> THEN s
  ELSE IF s[Len(s)] = SP THEN TrimEnd(SubSeq(s, 1, Len(s) - 1)) ELSE s

\* String.prototype.trim
Trim(s) == TrimEnd(TrimStart(s))

\* The lengths tried around the threshold of the submit handler, and 0.
BodyLengths == {0} \cup {b \in 1..MaxBody : b >= MinTestimonioLen - 2}

\* A text with a blank inside it, which trim keeps.
InteriorBlank == <<"x", SP>> \o Rep("x", MinTestimonioLen - 2)

\* The texts typed: no padding or MaxPad blanks, on either side.
TextInputs ==
  {Rep(SP, a) \o Rep("x", b) \o Rep(SP, c) :
     <<a, b, c>> \in {0, MaxPad} \X BodyLengths \X {0, MaxPad}}
  \cup {InteriorBlank}

NameInputs == {<<SP>>, <<SP, "A">>}

Anonimo == <<"A", "n", "o", "n", "i", "m", "o">>

\* The cached modals, and the elements that can hold the focus.
Modals == {"event", "donation"}
El(of, el, id) == [of |-> of, el |-> el, id |-> id]
NoElement == El("none", "null", 0)
Body == El("page", "body", 0)

LocalStorageKeys ==
  {"testimonios_monte_olivos", "ultimo_versiculo", "cookieConsent",
   "high-contrast"}

\* The fields validateContactForm reads.
ContactFields ==
  {"nombre", "email", "telefono", "tema", "mensaje", "privacidad"}

NoField == <<>>

\* The elements the handlers look up by selector or id.
DomElements ==
  {"toggle", "menu", "toggleIcon", "contactForm", "btnSubmit", "btnText",
   "btnLoading", "testimonioForm", "donacionMetodo", "donacionH3",
   "eventoH3", "eventoP1", "eventoP2", "eventoDescripcion", "contacto"}

\* The event modal before its first opening: this.modal is undefined.
NoContent == [title |-> "none"]
\* AppState.currentGalleryTab as AppState is declared.
InitialGalleryTab == "comunidad"
\* The data-tab values the gallery can be asked for.
GalleryTabs == {"comunidad", "eventos", "cultos"}

\* #contactForm as the page delivers it and as form.reset() leaves its
\* fields: empty, the box unchecked; no field is marked, the button is idle.
ContactLoaded ==
  [nombre |-> NoField, email |-> NoField, telefono |-> NoField,
   tema |-> NoField, mensaje |-> NoField, privacidad |-> FALSE,
   errores |-> [f \in ContactFields |-> "none"],
   invalid |-> {}, disabled |-> FALSE, loading |-> FALSE,
   confirmacion |-> FALSE]

\* ----------------------------------------------------- testimonial form
\* localStorage.setItem inside try/catch: the write lands, or it throws and
\* the store keeps what it held.
SetItemNoThrow(key, value, ok) ==
  IF ok THEN [localStorage EXCEPT ![key] = value] ELSE localStorage

TestimonioAcceptedAlways(texto) == TRUE

\* The condition of the submit handler, on the trimmed text.
TestimonioAccepted(texto) == Len(texto) >= MinTestimonioLen

\* The user types into the field "nombre" of the testimonial form.
FillNombre(n) ==
  /\ formNombre' = n
  /\ ev' = [op |-> "fillNombre"]
  /\ UNCHANGED <<otherVars, testimonios, formTestimonio, notice,
               localStorage, trapVars,
               activeElement, overlayVars>>

\* The user types into the field "testimonio" of the testimonial form.
FillTestimonio(t) ==
  /\ formTestimonio' = t
  /\ ev' = [op |-> "fillTestimonio"]
  /\ UNCHANGED <<otherVars, testimonios, formNombre, notice,
               localStorage, trapVars,
               activeElement, overlayVars>>

\* The submit listener of #testimonioForm, with addTestimonio inlined.
SubmitTestimonio(writeOk) ==
  LET nombre == IF Trim(formNombre) = <<>> THEN Anonimo ELSE Trim(formNombre)
      texto == Trim(formTestimonio)
      testimonio == [nombre |-> nombre, texto |-> texto]
  IN /\ Len(testimonios) < MaxTestimonios
     /\ IF TestimonioAccepted(texto)
        THEN /\ testimonios' = Append(testimonios, testimonio)
             /\ localStorage' = SetItemNoThrow("testimonios_monte_olivos",
                                               Json(testimonios'), writeOk)
             /\ formNombre' = <<>>
             /\ formTestimonio' = <<>>
             /\ notice' = "success"
        ELSE /\ notice' = "error"
             /\ UNCHANGED <<testimonios, localStorage, formNombre,
                            formTestimonio>>
     /\ ev' = [op |-> "submitTestimonio", raw |-> formTestimonio,
               texto |-> texto]
     /\ UNCHANGED <<otherVars, trapVars, activeElement, overlayVars>>

\* The script's state and the document's, before any handler has run.
InitLoaded ==
  /\ testimonios = <<>>
  /\ formNombre = <<>>
  /\ formTestimonio = <<>>
  /\ notice = "none"
  /\ trapHandlers = 0
  /\ modalExists = [m \in Modals |-> FALSE]
  /\ display = [m \in Modals |-> "none"]
  /\ visibleClass = [m \in Modals |-> FALSE]
  /\ ownTraps = [m \in Modals |-> 0]
  /\ a11yTraps = [m \in Modals |-> 0]
  /\ galleryModals = <<>>
  /\ escHandlers = <<>>
  /\ timers = <<>>
  /\ lastFocusedElement = NoElement
  /\ bodyOverflow = ""
  /\ preOpenFocus = [m \in Modals |-> NoElement]
  /\ opens = 0
  /\ versiculoShown = 0
  /\ versiculoOpacity = "1"
  /\ today = 1
  /\ rotations = 0
  /\ checkRotations = 0
  /\ checkWriteFailures = 0
  /\ persistedBy = 0
  /\ verseReady = FALSE
  /\ bannerVisible = FALSE
  /\ gtmLoaded = FALSE
  /\ hotjarLoaded = FALSE
  /\ gtmScripts = 0
  /\ hotjarScripts = 0
  /\ cookieLoad = "pending"
  /\ contact = ContactLoaded
  /\ activeEntries = {}
  /\ isMenuOpen = FALSE
  /\ menuActive = FALSE
  /\ ariaExpanded = "false"
  /\ menuIcon = "bars"
  /\ highContrast = FALSE
  /\ listening = FALSE
  /\ navModules = <<>>
  /\ isInitialized = FALSE
  /\ initFailed = FALSE
  /\ promises = <<>>
  /\ clipboard = "none"
  /\ eventContent = NoContent
  /\ scrollY = 0
  /\ scrollVisible = FALSE
  /\ inThrottle = FALSE
  /\ throttleTimers = 0
  /\ scrollStopped = FALSE
  /\ scrolls = 0
  /\ timeout = 0
  /\ debounceTimers = <<>>
  /\ burst = <<>>
  /\ burstsStarted = 0
  /\ runs = 0
  /\ calls = 0
  /\ ev = [op |-> "init"]

\* The page right after construction, with every element the script looks
\* up.
\* The gallery as the page is served: the tab of AppState.currentGalleryTab
\* is the active one.
GalleryLoaded ==
  /\ tabActive = {InitialGalleryTab} \cap tabButtons
  /\ tabSelected = {InitialGalleryTab} \cap tabButtons
  /\ panelShown = {InitialGalleryTab} \cap tabPanels
  /\ panelAriaShown = {InitialGalleryTab} \cap tabPanels
  /\ currentGalleryTab = InitialGalleryTab
  /\ panelOpacity = [t \in GalleryTabs |-> ""]
  /\ tabTimers = <<>>

InitPage ==
  /\ InitLoaded
  /\ present = DomElements
  /\ tabButtons = GalleryTabs
  /\ tabPanels = GalleryTabs
  /\ GalleryLoaded

InitForms ==
  /\ InitPage
  /\ containerN = 0
  /\ activeElement = 1
  /\ versiculoDom = TRUE
  /\ localStorage = [k \in LocalStorageKeys |-> Absent]

NextForms ==
  \/ \E n \in NameInputs : FillNombre(n)
  \/ \E t \in TextInputs : FillTestimonio(t)
  \/ \E writeOk \in BOOLEAN : SubmitTestimonio(writeOk)

SpecForms == InitForms /\ [][NextForms]_vars

\* C1: every testimonial submission whose text (testimonio.texto, the field
\* value trimmed) has at least 10 characters appends exactly one record to
\* AppState.testimonios and clears the form; a submission with a shorter text
\* appends nothing and shows an error notification.
C1_SubmitAppendsOrRejects ==
  [][ev'.op = "submitTestimonio" =>
       IF Len(Trim(formTestimonio)) >= MinTestimonioLen
       THEN /\ Len(testimonios') = Len(testimonios) + 1
            /\ SubSeq(testimonios', 1, Len(testimonios)) = testimonios
            /\ testimonios'[Len(testimonios')].texto = Trim(formTestimonio)
            /\ formNombre' = <<>>
            /\ formTestimonio' = <<>>
       ELSE /\ testimonios' = testimonios
            /\ notice' = "error"]_vars

\* A padded text was accepted as the second testimonial, after a rejection.
C1_Witness ==
  /\ ev.op = "submitTestimonio"
  /\ Len(ev.texto) >= MinTestimonioLen
  /\ Len(ev.raw) > Len(ev.texto)
  /\ Len(testimonios) = 2
  /\ formTestimonio = <<>>

\* ------------------------------------------------------- Utils.trapFocus
\* The tab order of the page: the elements before the container, the
\* container's focusable elements, the elements after it.
TabOrderLen == OutsideBefore + containerN + OutsideAfter
FirstElement == OutsideBefore + 1
LastElement == OutsideBefore + containerN
InsideContainer(p) == containerN >= 1 /\ p >= FirstElement /\ p <= LastElement

\* The browser's own Tab and Shift+Tab, around the page.
DefaultTab(p, shift) ==
  IF shift THEN (IF p = 1 THEN TabOrderLen ELSE p - 1)
  ELSE (IF p = TabOrderLen THEN 1 ELSE p + 1)

HandleTabKeyNoShiftWrap(first, last, active, shift) ==
  IF ~shift /\ active = last
  THEN [active |-> first, prevented |-> TRUE]
  ELSE [active |-> active, prevented |-> FALSE]

\* handleTabKey for a Tab keydown: the element focused afterwards and
\* whether preventDefault was called.
HandleTabKey(first, last, active, shift) ==
  IF shift /\ active = first
  THEN [active |-> last, prevented |-> TRUE]
  ELSE IF ~shift /\ active = last
       THEN [active |-> first, prevented |-> TRUE]
       ELSE [active |-> active, prevented |-> FALSE]

\* The listeners of one container run one after the other on the same event.
RECURSIVE RunTabHandlers(_, _, _, _, _)
RunTabHandlers(k, first, last, r, shift) ==
  IF k = 0 THEN r
  ELSE LET h == HandleTabKey(first, last, r.active, shift)
       IN RunTabHandlers(k - 1, first, last,
                         [active |-> h.active,
                          prevented |-> r.prevented \/ h.prevented], shift)

\* A Tab keydown with focus on p, the container carrying k listeners: the
\* listeners run when the event starts inside the container, then the
\* browser's default unless it was prevented.
TabKeydown(k, first, last, p, shift, inside) ==
  LET r == IF inside
           THEN RunTabHandlers(k, first, last,
                               [active |-> p, prevented |-> FALSE], shift)
           ELSE [active |-> p, prevented |-> FALSE]
  IN IF r.prevented THEN r.active ELSE DefaultTab(r.active, shift)

\* Utils.trapFocus(container)
TrapFocus ==
  /\ trapHandlers < MaxTraps
  /\ trapHandlers' = IF containerN = 0 THEN trapHandlers ELSE trapHandlers + 1
  /\ ev' = [op |-> "trapFocus"]
  /\ UNCHANGED <<otherVars, formVars, localStorage, containerN,
                 activeElement, overlayVars>>

\* The function trapFocus returned.
UntrapFocus ==
  /\ trapHandlers > 0
  /\ trapHandlers' = trapHandlers - 1
  /\ ev' = [op |-> "untrapFocus"]
  /\ UNCHANGED <<otherVars, formVars, localStorage, containerN,
                 activeElement, overlayVars>>

\* A click or a focus() call puts the focus on element p.
FocusElement(p) ==
  /\ activeElement' = p
  /\ ev' = [op |-> "focus"]
  /\ UNCHANGED <<otherVars, formVars, localStorage, containerN,
                 trapHandlers, overlayVars>>

\* The user presses Tab or Shift+Tab.
PressTab(shift) ==
  /\ activeElement' = TabKeydown(trapHandlers, FirstElement, LastElement,
                                 activeElement, shift,
                                 InsideContainer(activeElement))
  /\ ev' = [op |-> "tab", shift |-> shift, from |-> activeElement]
  /\ UNCHANGED <<otherVars, formVars, localStorage, containerN,
                 trapHandlers, overlayVars>>

InitTrap ==
  /\ InitPage
  /\ activeElement = 1
  /\ containerN \in 0..MaxFocusable
  /\ versiculoDom = TRUE
  /\ localStorage = [k \in LocalStorageKeys |-> Absent]

NextTrap ==
  \/ TrapFocus
  \/ UntrapFocus
  \/ \E p \in 1..TabOrderLen : FocusElement(p)
  \/ \E shift \in BOOLEAN : PressTab(shift)

SpecTrap == InitTrap /\ [][NextTrap]_vars

\* C2: with trapFocus installed on a container of n >= 1 focusable elements,
\* Tab on the last element focuses the first, Shift+Tab on the first focuses
\* the last, every other Tab press follows the default order, and a press
\* that starts inside the container ends inside it.
C2_TrapKeepsFocusInside ==
  [][(/\ ev'.op = "tab"
      /\ trapHandlers >= 1
      /\ InsideContainer(activeElement)) =>
       /\ InsideContainer(activeElement')
       /\ activeElement' =
            IF ~ev'.shift /\ activeElement = LastElement THEN FirstElement
            ELSE IF ev'.shift /\ activeElement = FirstElement THEN LastElement
            ELSE DefaultTab(activeElement, ev'.shift)]_vars

\* Shift+Tab on the first of three trapped elements has focused the last.
C2_Witness ==
  /\ ev.op = "tab"
  /\ ev.shift
  /\ trapHandlers >= 1
  /\ containerN = 3
  /\ ev.from = FirstElement
  /\ activeElement = LastElement

\* --------------------------------------------------------------- the menu
Toggle == El("page", "toggle", 0)      \* .mobile-menu-toggle

Menu ==
  [open |-> isMenuOpen, active |-> menuActive, aria |-> ariaExpanded,
   icon |-> menuIcon]

\* toggleMenu flips the flag, toggles the class and writes the flag into
\* aria-expanded.
ToggledMenu(mn) ==
  [open |-> ~mn.open, active |-> ~mn.active,
   aria |-> IF ~mn.open THEN "true" ELSE "false",
   icon |-> IF ~mn.open THEN "times" ELSE "bars"]

\* closeMenu that leaves the class active on the menu element.
ClosedMenuKeepsClass(mn) ==
  IF ~mn.open THEN mn
  ELSE [open |-> FALSE, active |-> mn.active, aria |-> "false",
        icon |-> "bars"]

\* closeMenu returns at once on a closed menu.
ClosedMenu(mn) ==
  IF ~mn.open THEN mn
  ELSE [open |-> FALSE, active |-> FALSE, aria |-> "false", icon |-> "bars"]

SetMenu(mn) ==
  /\ isMenuOpen' = mn.open
  /\ menuActive' = mn.active
  /\ ariaExpanded' = mn.aria
  /\ menuIcon' = mn.icon

\* The document click listener of setupMenuToggle, for a click outside the
\* menu and its toggle: closeMenu. It runs after the listeners on the
\* clicked element, which left body overflow as over.
DocumentClick(over) ==
  /\ SetMenu(ClosedMenu(Menu))
  /\ bodyOverflow' = IF isMenuOpen THEN "" ELSE over

\* The document keydown listener of setupMenuToggle, for Escape: an open
\* menu is closed and the toggle takes the focus.
DocumentEscape ==
  /\ SetMenu(ClosedMenu(Menu))
  /\ bodyOverflow' = IF isMenuOpen THEN "" ELSE bodyOverflow
  /\ activeElement' = IF isMenuOpen THEN Toggle ELSE activeElement

\* ------------------------------------------ image, event and donation modals
Trigger(m) == El("page", m, 0)         \* the .evento card, the .btn-donar button
CloseButton(m) == El(m, "close", 0)    \* .modal-close of a cached modal
GalleryImage == El("page", "gallery", 0)
GalleryClose(id) == El("gallery", "close", id)

ShowTimer(m) == [kind |-> "show", m |-> m, id |-> 0, delay |-> ShowDelay]
HideTimer(m) == [kind |-> "hide", m |-> m, id |-> 0, delay |-> HideDelay]
RemoveTimer(id) ==
  [kind |-> "remove", m |-> "gallery", id |-> id, delay |-> HideDelay]

\* Timers that fire in any order.
CanFireAnyOrder(i) == TRUE

\* A timer fires before every timer armed after it with a delay not shorter.
CanFire(i) == \A j \in 1..(i - 1) : timers[j].delay > timers[i].delay

RemoveAt(q, i) == SubSeq(q, 1, i - 1) \o SubSeq(q, i + 1, Len(q))

\* An element takes the focus when it is rendered.
Rendered(el, disp, gal) ==
  \/ el.of = "page" /\ el.el # "body"
  \/ el.of \in Modals /\ disp[el.of] = "block"
  \/ el.of = "gallery" /\ gal[el.id] \in {"open", "fading"}

\* element.focus() with cur focused.
Focus(cur, el, disp, gal) == IF Rendered(el, disp, gal) THEN el ELSE cur

\* The focused element stops being rendered: the focus falls to the body.
FocusFixup(cur, disp, gal) ==
  IF cur.of = "page" \/ Rendered(cur, disp, gal) THEN cur ELSE Body

\* The modal-opened listener of AccessibilityManager stores
\* document.activeElement as it is when the event is dispatched.
CapturedOnOpen(atOpen, atDispatch) == atDispatch

\* The backdrop's click handler closes the modal for this click target.
BackdropClosesAnyTarget(target) == TRUE

BackdropCloses(target) == target = "backdrop"

\* The .evento cards of the page: the text of h3, of the first and second
\* p and of .evento-descripcion, "" where the card has none.
EventCards ==
  {[title |-> "culto", time |-> "domingo", location |-> "templo",
    description |-> "alabanza"],
   [title |-> "retiro", time |-> "sabado", location |-> "campo",
    description |-> ""]}

\* openEventModal, this.modal undefined: the template is filled in and
\* p.event-description is part of it for a non-empty description only.
\* description is the text of that element, "absent" without the element;
\* calendar and share are the titles the two buttons' onclick carry.
NewEventContent(card) ==
  [title |-> card.title, time |-> card.time, location |-> card.location,
   description |-> IF card.description # "" THEN card.description
                   ELSE "absent",
   calendar |-> card.title, share |-> card.title]

\* openEventModal on the cached node: the texts are assigned; an existing
\* p.event-description gets the new text, a missing one is inserted for a
\* non-empty description.
UpdateEventContent(content, card) ==
  [title |-> card.title, time |-> card.time, location |-> card.location,
   description |->
     IF content.description # "absent" THEN card.description
     ELSE IF card.description # "" THEN card.description
     ELSE "absent",
   calendar |-> card.title, share |-> card.title]

\* The open call of a cached modal, after its content is in place: shared by
\* openEventModal and createDonationModal. own and a11y are the traps left
\* on .modal-content when the call starts. The click or key press that opens
\* the modal has put the focus on its trigger.
OpenCachedCore(m, own, a11y) ==
  LET atOpen == Trigger(m)
      disp == [display EXCEPT ![m] = "block"]
      atDispatch == Focus(atOpen, CloseButton(m), disp, galleryModals)
  IN /\ opens < MaxOpens
     /\ Len(timers) < MaxTimers
     /\ opens' = opens + 1
     /\ modalExists' = [modalExists EXCEPT ![m] = TRUE]
     /\ DocumentClick("hidden")
     /\ display' = disp
     /\ timers' = Append(timers, ShowTimer(m))
     /\ escHandlers' = Append(escHandlers, [m |-> m, id |-> 0])
     /\ ownTraps' = [ownTraps EXCEPT ![m] = own + 1]
     \* modal-opened: AccessibilityManager.setupFocusManagement
     /\ lastFocusedElement' = CapturedOnOpen(atOpen, atDispatch)
     /\ activeElement' = Focus(atDispatch, CloseButton(m), disp, galleryModals)
     /\ a11yTraps' = [a11yTraps EXCEPT ![m] = a11y + 1]
     /\ preOpenFocus' = [preOpenFocus EXCEPT ![m] = atOpen]
     /\ UNCHANGED <<verseVars, cookieVars, verseReady, contact, activeEntries,
                    appVars, shareVars, domVars, localStorage,
                    trapVars,
                    visibleClass, galleryModals>>

OpenCached(m, own, a11y, card) ==
  /\ OpenCachedCore(m, own, a11y)
  /\ ev' = [op |-> "open", m |-> m, card |-> card]
  /\ UNCHANGED formVars

\* EventManager.openEventModal: the cached node keeps its .modal-content and
\* the listeners on it.
OpenEventModal(card) ==
  /\ OpenCached("event", ownTraps["event"], a11yTraps["event"], card.title)
  /\ eventContent' = IF modalExists["event"]
                     THEN UpdateEventContent(eventContent, card)
                     ELSE NewEventContent(card)

\* DonationManager.createDonationModal: innerHTML replaces .modal-content and
\* with it every listener the old content carried.
CreateDonationModal ==
  /\ OpenCached("donation", 0, 0, "none")
  /\ UNCHANGED contentVars

\* Gallery.openImageModal: a new node on every call.
OpenImageModal ==
  LET id == Len(galleryModals) + 1
      gal == Append(galleryModals, "open")
      atOpen == GalleryImage
  IN /\ opens < MaxOpens
     /\ opens' = opens + 1
     /\ galleryModals' = gal
     /\ DocumentClick("hidden")
     /\ escHandlers' = Append(escHandlers, [m |-> "gallery", id |-> id])
     /\ activeElement' = Focus(atOpen, GalleryClose(id), display, gal)
     /\ ev' = [op |-> "open", m |-> "gallery", card |-> "none"]
     /\ UNCHANGED <<nonMenuVars, formVars, localStorage, trapVars,
                    modalExists, display,
                    visibleClass, ownTraps, a11yTraps, timers, focusVars>>

\* closeModal of a cached modal m or of image modal id, on the pair
\* <<class state, timers>>.
CloseModalTimer(h) == IF h.m = "gallery" THEN RemoveTimer(h.id) ELSE HideTimer(h.m)

RECURSIVE RunEscHandlers(_, _, _, _)
RunEscHandlers(hs, vis, gal, tms) ==
  IF hs = <<>> THEN [vis |-> vis, gal |-> gal, tms |-> tms]
  ELSE LET h == Head(hs)
       IN RunEscHandlers(
            Tail(hs),
            IF h.m = "gallery" THEN vis ELSE [vis EXCEPT ![h.m] = FALSE],
            IF h.m = "gallery" /\ gal[h.id] = "open"
            THEN [gal EXCEPT ![h.id] = "fading"] ELSE gal,
            Append(tms, CloseModalTimer(h)))

\* Escape: every handleKeydown on document closes its modal and removes
\* itself.
PressEscape ==
  LET r == RunEscHandlers(escHandlers, visibleClass, galleryModals, timers)
  IN /\ Len(timers) + Len(escHandlers) <= MaxTimers
     /\ visibleClass' = r.vis
     /\ galleryModals' = r.gal
     /\ timers' = r.tms
     /\ escHandlers' = <<>>
     /\ DocumentEscape
     /\ ev' = [op |-> "escape", n |-> Len(escHandlers)]
     /\ UNCHANGED <<nonMenuVars, formVars, localStorage, trapVars,
                    modalExists, display, ownTraps, a11yTraps,
                    focusVars, opens>>

\* A click inside a displayed cached modal. The target is the close button,
\* the backdrop itself or the content inside it. The click bubbles:
\* the close button's handlers run for a click on it, the backdrop's for
\* every target.
ClickModal(m, target) ==
  LET closes == target = "close" \/ BackdropCloses(target)
      untraps == target \in {"close", "backdrop"}
  IN /\ display[m] = "block"
     /\ closes => Len(timers) < MaxTimers
     /\ visibleClass' = IF closes THEN [visibleClass EXCEPT ![m] = FALSE]
                        ELSE visibleClass
     /\ timers' = IF closes THEN Append(timers, HideTimer(m)) ELSE timers
     /\ ownTraps' = IF untraps THEN [ownTraps EXCEPT ![m] = 0] ELSE ownTraps
     /\ activeElement' = IF target = "close" THEN CloseButton(m) ELSE Body
     /\ DocumentClick(bodyOverflow)
     /\ ev' = [op |-> "click", m |-> m, target |-> target]
     /\ UNCHANGED <<nonMenuVars, formVars, localStorage,
                    trapVars, modalExists, display, a11yTraps, galleryModals,
                    escHandlers, focusVars, opens>>

\* A click inside image modal id while its node is in the document.
ClickImageModal(id, target) ==
  LET closes == target = "close" \/ BackdropCloses(target)
  IN /\ galleryModals[id] \in {"open", "fading"}
     /\ closes => Len(timers) < MaxTimers
     /\ galleryModals' = IF closes THEN [galleryModals EXCEPT ![id] = "fading"]
                         ELSE galleryModals
     /\ timers' = IF closes THEN Append(timers, RemoveTimer(id)) ELSE timers
     /\ activeElement' = IF target = "close" THEN GalleryClose(id) ELSE Body
     /\ DocumentClick(bodyOverflow)
     /\ ev' = [op |-> "click", m |-> "gallery", target |-> target]
     /\ UNCHANGED <<nonMenuVars, formVars, localStorage, trapVars,
                    modalExists, display,
                    visibleClass, ownTraps, a11yTraps, escHandlers,
                    focusVars, opens>>

\* A pending setTimeout callback runs.
FireTimer(i) ==
  LET t == timers[i]
  IN /\ CanFire(i)
     /\ timers' = RemoveAt(timers, i)
     /\ ev' = [op |-> "timer", m |-> t.m, kind |-> t.kind]
     /\ CASE t.kind = "show" ->
               /\ visibleClass' = [visibleClass EXCEPT ![t.m] = TRUE]
               /\ UNCHANGED <<display, galleryModals, bodyOverflow,
                              activeElement, lastFocusedElement>>
          [] t.kind = "hide" ->
               \* display none, overflow restored, modal-closed dispatched
               LET disp == [display EXCEPT ![t.m] = "none"]
                   cur == FocusFixup(activeElement, disp, galleryModals)
               IN /\ display' = disp
                  /\ bodyOverflow' = ""
                  /\ activeElement' =
                       IF lastFocusedElement # NoElement
                       THEN Focus(cur, lastFocusedElement, disp, galleryModals)
                       ELSE cur
                  /\ lastFocusedElement' = NoElement
                  /\ UNCHANGED <<visibleClass, galleryModals>>
          [] t.kind = "remove" ->
               LET gal == [galleryModals EXCEPT ![t.id] = "removed"]
               IN /\ galleryModals' = gal
                  /\ bodyOverflow' = ""
                  /\ activeElement' = FocusFixup(activeElement, display, gal)
                  /\ UNCHANGED <<display, visibleClass,
                                 lastFocusedElement>>
     /\ UNCHANGED <<otherVars, formVars, localStorage, trapVars,
                    modalExists, ownTraps,
                    a11yTraps, escHandlers, preOpenFocus, opens>>

ClickTargets == {"close", "backdrop", "content"}

InitOverlay ==
  /\ InitPage
  /\ containerN = 0
  /\ activeElement = Body
  /\ versiculoDom = TRUE
  /\ localStorage = [k \in LocalStorageKeys |-> Absent]

NextOverlay ==
  \/ \E card \in EventCards : OpenEventModal(card)
  \/ CreateDonationModal
  \/ OpenImageModal
  \/ PressEscape
  \/ \E m \in Modals, target \in ClickTargets : ClickModal(m, target)
  \/ \E id \in 1..Len(galleryModals), target \in ClickTargets :
       ClickImageModal(id, target)
  \/ \E i \in 1..Len(timers) : FireTimer(i)

SpecOverlay == InitOverlay /\ [][NextOverlay]_vars

\* ------------------------------------------------------------- donations
\* String.prototype.toLowerCase on the letters the titles use.
LowerCase ==
  ("B" :> "b") @@ ("I" :> "i") @@ ("P" :> "p") @@ ("T" :> "t") @@ ("Z" :> "z")

ToLowerCase(s) ==
  [i \in 1..Len(s) |-> IF s[i] \in DOMAIN LowerCase THEN LowerCase[s[i]]
                       ELSE s[i]]

\* String.prototype.includes for a non-empty needle.
Includes(s, sub) ==
  \E i \in 0..(Len(s) - Len(sub)) : \A k \in 1..Len(sub) : s[i + k] = sub[k]

BizumWord == <<"b", "i", "z", "u", "m">>
PaypalWord == <<"p", "a", "y", "p", "a", "l">>
TransferenciaWord ==
  <<"t", "r", "a", "n", "s", "f", "e", "r", "e", "n", "c", "i", "a">>

\* "Bizum — dona ahora"
BizumDonaAhora ==
  <<"B", "i", "z", "u", "m", " ", "-", " ", "d", "o", "n", "a", " ", "a", "h",
    "o", "r", "a">>

\* The pieces the h3 texts of the donation cards are put together from.
TitleParts ==
  { <<>>, <<"B", "I", "Z">>, <<"u", "m">>, <<"P", "a", "y", "P", "a", "l">>,
    <<"T", "r", "a", "n", "s", "f", "e", "r", "e", "n", "c", "i", "a">> }

CardTitles == {a \o b : a \in TitleParts, b \in TitleParts} \cup {BizumDonaAhora}

GetDonationMethodBankFirst(title) ==
  LET t == ToLowerCase(title)
  IN IF Includes(t, TransferenciaWord) THEN "bank"
     ELSE IF Includes(t, PaypalWord) THEN "paypal"
     ELSE IF Includes(t, BizumWord) THEN "bizum"
     ELSE "unknown"

\* DonationManager.getDonationMethod on the card's h3 text.
GetDonationMethod(title) ==
  LET t == ToLowerCase(title)
  IN IF Includes(t, BizumWord) THEN "bizum"
     ELSE IF Includes(t, PaypalWord) THEN "paypal"
     ELSE IF Includes(t, TransferenciaWord) THEN "bank"
     ELSE "unknown"

\* The click on a .btn-donar of the card with this title:
\* getDonationMethod, then handleDonation.
ClickDonar(title) ==
  LET method == GetDonationMethod(title)
  IN CASE method = "bizum" ->
            /\ OpenCachedCore("donation", 0, 0)
            /\ notice' = "info"
            /\ ev' = [op |-> "donar", title |-> title, method |-> method,
                      window |-> FALSE]
            /\ UNCHANGED <<testimonios, formNombre, formTestimonio,
                           contentVars>>
       [] method = "bank" ->
            /\ OpenCachedCore("donation", 0, 0)
            /\ ev' = [op |-> "donar", title |-> title, method |-> method,
                      window |-> FALSE]
            /\ UNCHANGED <<formVars, contentVars>>
       [] method = "paypal" ->
            /\ notice' = "info"
            /\ ev' = [op |-> "donar", title |-> title, method |-> method,
                      window |-> TRUE]
            /\ UNCHANGED <<otherVars, testimonios, formNombre, formTestimonio,
                           localStorage, trapVars, activeElement, overlayVars>>
       [] OTHER ->
            /\ notice' = "error"
            /\ ev' = [op |-> "donar", title |-> title, method |-> method,
                      window |-> FALSE]
            /\ UNCHANGED <<otherVars, testimonios, formNombre, formTestimonio,
                           localStorage, trapVars, activeElement, overlayVars>>

NextDonation ==
  \/ \E title \in CardTitles : ClickDonar(title)
  \/ \E target \in ClickTargets : ClickModal("donation", target)
  \/ \E i \in 1..Len(timers) : FireTimer(i)

SpecDonation == InitOverlay /\ [][NextDonation]_vars

\* ------------------------------------------------------- verse of the day
VersiculoKey == "ultimo_versiculo"
Corrupt == [kind |-> "corrupt"]    \* a value JSON.parse or data.fecha throws on
\* Math.floor(Math.random() * CONFIG.versiculos.length), over the first
\* MaxPick entries.
Versiculos == 1..(IF MaxPick < NumVersiculos THEN MaxPick ELSE NumVersiculos)

SwapTimer(v, id) ==
  [kind |-> "swap", m |-> "versiculo", id |-> id, delay |-> SwapDelay, v |-> v]

UltimoVersiculoOtro(v, hoy) ==
  Json([versiculo |-> (v % NumVersiculos) + 1, fecha |-> hoy])

\* The record cambiarVersiculo stores.
UltimoVersiculo(v, hoy) == Json([versiculo |-> v, fecha |-> hoy])

NuevoDiaSiempre(fecha, hoy) == TRUE

\* data.fecha !== fechaHoy
NuevoDia(fecha, hoy) == fecha # hoy

\* The body of cambiarVersiculo once both elements are found: verse v is
\* picked, the text fades out, the swap is armed, the record is stored.
Rotate(v, writeOk) ==
  /\ rotations < MaxRotations
  /\ Len(timers) < MaxTimers
  /\ rotations' = rotations + 1
  /\ versiculoOpacity' = "0"
  /\ timers' = Append(timers, SwapTimer(v, rotations'))
  /\ localStorage' = SetItemNoThrow(VersiculoKey, UltimoVersiculo(v, today),
                                    writeOk)
  /\ persistedBy' = IF writeOk THEN rotations' ELSE persistedBy
  /\ UNCHANGED <<versiculoDom, versiculoShown, today>>

\* RecursosEspirituales.cambiarVersiculo from the click on #nuevo-versiculo.
ClickNuevoVersiculo(v, writeOk) ==
  /\ verseReady
  /\ IF versiculoDom
     THEN Rotate(v, writeOk)
     ELSE UNCHANGED <<verseDom, today, rotations, persistedBy, timers,
                      localStorage>>
  /\ ev' = IF versiculoDom
           THEN [op |-> "cambiarVersiculo", v |-> v, writeOk |-> writeOk]
           ELSE [op |-> "cambiarVersiculo", v |-> 0, writeOk |-> FALSE]
  /\ UNCHANGED <<pageVars, cookieVars, formVars, trapVars, activeElement, modalExists,
                 display, visibleClass, ownTraps, a11yTraps, galleryModals,
                 escHandlers, bodyOverflow, focusVars, opens, checkRotations,
                 checkWriteFailures, verseReady>>

\* RecursosEspirituales.verificarVersiculoDiario.
VerificarVersiculoDiario(v, writeOk) ==
  LET stored == localStorage[VersiculoKey]
      called == stored.kind = "json" /\ NuevoDia(stored.val.fecha, today)
      rotates == called /\ versiculoDom
  IN /\ IF rotates
        THEN /\ Rotate(v, writeOk)
             /\ checkRotations' = checkRotations + 1
             /\ checkWriteFailures' =
                  checkWriteFailures + (IF writeOk THEN 0 ELSE 1)
        ELSE UNCHANGED <<verseVars, timers, localStorage>>
     /\ ev' = IF rotates
              THEN [op |-> "verificar", called |-> called, v |-> v,
                    writeOk |-> writeOk]
              ELSE [op |-> "verificar", called |-> called, v |-> 0,
                    writeOk |-> FALSE]
     /\ UNCHANGED <<pageVars, cookieVars, formVars, trapVars, activeElement,
                    modalExists, display, visibleClass, ownTraps, a11yTraps,
                    galleryModals, escHandlers, bodyOverflow, focusVars,
                    opens>>

\* RecursosEspirituales.setupVersiculoDelDia, run once when the page
\* initialises: the click listener is attached, then the daily check runs.
SetupVersiculoDelDia(v, writeOk) ==
  /\ ~verseReady
  /\ verseReady' = TRUE
  /\ VerificarVersiculoDiario(v, writeOk)

\* The callback cambiarVersiculo armed: the text is swapped and fades in.
FireSwapTimer(i) ==
  /\ timers[i].kind = "swap"
  /\ CanFire(i)
  /\ timers' = RemoveAt(timers, i)
  /\ versiculoShown' = timers[i].v
  /\ versiculoOpacity' = "1"
  /\ ev' = [op |-> "timer", m |-> "versiculo", kind |-> "swap",
            id |-> timers[i].id]
  /\ UNCHANGED <<pageVars, cookieVars, formVars, localStorage, trapVars, activeElement,
                 modalExists, display, visibleClass, ownTraps, a11yTraps,
                 galleryModals, escHandlers, bodyOverflow, focusVars, opens,
                 versiculoDom, today, rotations, checkRotations,
                 checkWriteFailures, persistedBy, verseReady>>

\* Midnight passes.
NextDay ==
  /\ today < MaxDay
  /\ today' = today + 1
  /\ checkRotations' = 0
  /\ checkWriteFailures' = 0
  /\ ev' = [op |-> "nextDay"]
  /\ UNCHANGED <<pageVars, cookieVars, formVars, localStorage, trapVars, activeElement,
                 overlayVars, verseDom, rotations, persistedBy, verseReady>>

\* The page is loaded again: the document and the script state start over,
\* pending callbacks are dropped, localStorage stays.
ReloadPage ==
  /\ testimonios' = <<>>
  /\ formNombre' = <<>>
  /\ formTestimonio' = <<>>
  /\ notice' = "none"
  /\ trapHandlers' = 0
  /\ modalExists' = [m \in Modals |-> FALSE]
  /\ display' = [m \in Modals |-> "none"]
  /\ visibleClass' = [m \in Modals |-> FALSE]
  /\ ownTraps' = [m \in Modals |-> 0]
  /\ a11yTraps' = [m \in Modals |-> 0]
  /\ galleryModals' = <<>>
  /\ escHandlers' = <<>>
  /\ timers' = <<>>
  /\ lastFocusedElement' = NoElement
  /\ bodyOverflow' = ""
  /\ preOpenFocus' = [m \in Modals |-> NoElement]
  /\ versiculoShown' = 0
  /\ versiculoOpacity' = "1"
  /\ verseReady' = FALSE
  /\ bannerVisible' = FALSE
  /\ gtmLoaded' = FALSE
  /\ hotjarLoaded' = FALSE
  /\ gtmScripts' = 0
  /\ hotjarScripts' = 0
  /\ cookieLoad' = "pending"
  /\ contact' = ContactLoaded
  /\ activeEntries' = {}
  /\ isMenuOpen' = FALSE
  /\ menuActive' = FALSE
  /\ ariaExpanded' = "false"
  /\ menuIcon' = "bars"
  /\ highContrast' = FALSE
  /\ listening' = FALSE
  /\ navModules' = <<>>
  /\ isInitialized' = FALSE
  /\ initFailed' = FALSE
  /\ promises' = <<>>
  /\ eventContent' = NoContent
  /\ scrollY' = 0
  /\ scrollVisible' = FALSE
  /\ inThrottle' = FALSE
  /\ throttleTimers' = 0
  /\ scrollStopped' = FALSE
  /\ scrolls' = 0
  /\ timeout' = 0
  /\ debounceTimers' = <<>>
  /\ burst' = <<>>
  /\ burstsStarted' = 0
  /\ runs' = 0
  /\ calls' = 0
  /\ tabActive' = {InitialGalleryTab} \cap tabButtons
  /\ tabSelected' = {InitialGalleryTab} \cap tabButtons
  /\ panelShown' = {InitialGalleryTab} \cap tabPanels
  /\ panelAriaShown' = {InitialGalleryTab} \cap tabPanels
  /\ currentGalleryTab' = InitialGalleryTab
  /\ panelOpacity' = [t \in GalleryTabs |-> ""]
  /\ tabTimers' = <<>>
  /\ ev' = [op |-> "reload"]
  /\ UNCHANGED <<present, galleryDom, clipboard, localStorage, containerN, activeElement, opens, versiculoDom,
                 today, rotations, checkRotations, checkWriteFailures,
                 persistedBy>>

\* What ultimo_versiculo can hold when the page is opened.
StoredVersiculos ==
  {Absent, Corrupt}
  \cup {Json([versiculo |-> v, fecha |-> d]) : v \in {1}, d \in 0..1}

InitVerse ==
  /\ InitPage
  /\ containerN = 0
  /\ activeElement = Body
  /\ versiculoDom \in BOOLEAN
  /\ \E u \in StoredVersiculos :
       localStorage =
         [k \in LocalStorageKeys |-> IF k = VersiculoKey THEN u ELSE Absent]

NextVerse ==
  \/ \E v \in Versiculos, writeOk \in BOOLEAN : ClickNuevoVersiculo(v, writeOk)
  \/ \E v \in Versiculos, writeOk \in BOOLEAN :
       SetupVersiculoDelDia(v, writeOk)
  \/ \E i \in 1..Len(timers) : FireSwapTimer(i)
  \/ NextDay
  \/ ReloadPage

SpecVerse == InitVerse /\ [][NextVerse]_vars

\* ----------------------------------------------------------- cookie consent
CookieKey == "cookieConsent"

BannerTimer ==
  [kind |-> "banner", m |-> "cookie", id |-> 0, delay |-> BannerDelay, v |-> 0]

\* The single record written when the user answers the banner.
CookiePreference(accepted, hoy) ==
  Json([accepted |-> accepted, timestamp |-> hoy])

HasStoredConsentNever(ls) == FALSE

\* A decision is stored.
HasStoredConsent(ls) == ls[CookieKey] # Absent

\* CookieManager.applyCookiePreferences: each tag is injected once, and only
\* with the performance preference.
ApplyCookiePreferencesUnguarded(performance) ==
  /\ gtmLoaded' = (gtmLoaded \/ performance)
  /\ hotjarLoaded' = (hotjarLoaded \/ performance)
  /\ gtmScripts' = gtmScripts + (IF performance THEN 1 ELSE 0)
  /\ hotjarScripts' = hotjarScripts + (IF performance THEN 1 ELSE 0)

ApplyCookiePreferences(performance) ==
  LET gtm == performance /\ ~gtmLoaded
      hotjar == performance /\ ~hotjarLoaded
  IN /\ gtmLoaded' = (gtmLoaded \/ gtm)
     /\ hotjarLoaded' = (hotjarLoaded \/ hotjar)
     /\ gtmScripts' = gtmScripts + (IF gtm THEN 1 ELSE 0)
     /\ hotjarScripts' = hotjarScripts + (IF hotjar THEN 1 ELSE 0)

\* applyCookiePreferences called with the preferences of the settings
\* dialog, whose performance entry is set or not.
CallApplyCookiePreferences(performance) ==
  /\ cookieLoad # "pending"
  /\ ApplyCookiePreferences(performance)
  /\ ev' = [op |-> "applyCookiePreferences", performance |-> performance]
  /\ UNCHANGED <<pageVars, verseVars, verseReady, bannerVisible, cookieLoad, formVars,
                 localStorage, trapVars, activeElement, overlayVars>>

\* CookieManager.init: a stored decision is applied and the banner skipped;
\* with none the banner is scheduled.
CookieInit ==
  /\ cookieLoad = "pending"
  /\ IF HasStoredConsent(localStorage)
     THEN /\ cookieLoad' = "stored"
          /\ ApplyCookiePreferences(localStorage[CookieKey].val.accepted)
          /\ UNCHANGED timers
     ELSE /\ Len(timers) < MaxTimers
          /\ cookieLoad' = "empty"
          /\ timers' = Append(timers, BannerTimer)
          /\ UNCHANGED tagVars
  /\ ev' = [op |-> "cookieInit"]
  /\ UNCHANGED <<pageVars, verseVars, verseReady, bannerVisible, formVars, localStorage,
                 trapVars, activeElement, modalExists, display, visibleClass,
                 ownTraps, a11yTraps, galleryModals, escHandlers, bodyOverflow,
                 focusVars, opens>>

\* The scheduled callback shows the banner.
FireBannerTimer(i) ==
  /\ timers[i].kind = "banner"
  /\ CanFire(i)
  /\ timers' = RemoveAt(timers, i)
  /\ bannerVisible' = TRUE
  /\ ev' = [op |-> "timer", m |-> "cookie", kind |-> "banner", id |-> 0]
  /\ UNCHANGED <<pageVars, verseVars, verseReady, tagVars, cookieLoad,
                 formVars, localStorage, trapVars, activeElement, modalExists,
                 display, visibleClass, ownTraps, a11yTraps, galleryModals,
                 escHandlers, bodyOverflow, focusVars, opens>>

\* The user answers the banner: the decision is stored, the banner hidden,
\* the preferences applied.
AnswerBanner(accepted) ==
  /\ bannerVisible
  /\ localStorage' =
       [localStorage EXCEPT ![CookieKey] = CookiePreference(accepted, today)]
  /\ bannerVisible' = FALSE
  /\ ApplyCookiePreferences(accepted)
  /\ ev' = [op |-> "answerBanner", accepted |-> accepted]
  /\ UNCHANGED <<pageVars, verseVars, verseReady, cookieLoad, formVars, trapVars,
                 activeElement, overlayVars>>

\* The user clears the site's local storage.
ClearStorage ==
  /\ localStorage' = [k \in LocalStorageKeys |-> Absent]
  /\ ev' = [op |-> "clearStorage"]
  /\ UNCHANGED <<otherVars, formVars, trapVars, activeElement, overlayVars>>

\* What cookieConsent can hold when the page is opened: nothing, or the
\* answer of an earlier visit (day 0).
StoredConsents == {Absent} \cup {CookiePreference(a, 0) : a \in BOOLEAN}

InitCookie ==
  /\ InitPage
  /\ containerN = 0
  /\ activeElement = Body
  /\ versiculoDom = TRUE
  /\ \E c \in StoredConsents :
       localStorage =
         [k \in LocalStorageKeys |-> IF k = CookieKey THEN c ELSE Absent]

NextCookie ==
  \/ CookieInit
  \/ \E i \in 1..Len(timers) : FireBannerTimer(i)
  \/ \E accepted \in BOOLEAN : AnswerBanner(accepted)
  \/ \E performance \in BOOLEAN : CallApplyCookiePreferences(performance)
  \/ ClearStorage
  \/ NextDay
  \/ ReloadPage

SpecCookie == InitCookie /\ [][NextCookie]_vars

\* --------------------------------------------------------------- validators
\* \s, on the white space the inputs use.
IsSpace(c) == c \in {SP, "\t", "\n"}

\* [^\s@]
NotSpaceNorAt(c) == ~IsSpace(c) /\ c # "@"

\* One character of input through CONFIG.forms.emailRegex,
\* /^[^\s@]+@[^\s@]+\.[^\s@]+$/, as the set of positions reached in it:
\* 0 at ^, 1 in the first [^\s@]+, 2 past @, 3 in the second [^\s@]+,
\* 4 past \., 5 in the last [^\s@]+.
EmailStep(S, c) ==
  (IF NotSpaceNorAt(c) /\ S \cap {0, 1} # {} THEN {1} ELSE {})
  \cup (IF c = "@" /\ 1 \in S THEN {2} ELSE {})
  \cup (IF NotSpaceNorAt(c) /\ S \cap {2, 3} # {} THEN {3} ELSE {})
  \cup (IF c = "." /\ 3 \in S THEN {4} ELSE {})
  \cup (IF NotSpaceNorAt(c) /\ S \cap {4, 5} # {} THEN {5} ELSE {})

RECURSIVE EmailRun(_, _, _)
EmailRun(S, s, i) ==
  IF i > Len(s) THEN S ELSE EmailRun(EmailStep(S, s[i]), s, i + 1)

ValidateEmailNoDot(email) == EmailRun({0}, email, 1) \cap {3, 5} # {}

\* Utils.validateEmail: emailRegex.test(email).
ValidateEmail(email) == 5 \in EmailRun({0}, email, 1)

EmailAlphabet == {"a", "@", ".", SP}

RECURSIVE StringsUpTo(_, _)
StringsUpTo(alphabet, n) ==
  IF n = 0 THEN {<<>>}
  ELSE LET shorter == StringsUpTo(alphabet, n - 1)
       IN shorter \cup {Append(s, c) : s \in shorter, c \in alphabet}

\* "a@b.com", "a@b", "abc"
EmailExamples ==
  {<<"a", "@", "b", ".", "c", "o", "m">>, <<"a", "@", "b">>, <<"a", "b", "c">>}

EmailInputs == StringsUpTo(EmailAlphabet, MaxEmailLen) \cup EmailExamples

\* A call of Utils.validateEmail, the one call of a run.
CallValidateEmail(email) ==
  /\ ev.op = "init"
  /\ ev' = [op |-> "validateEmail", input |-> email,
            result |-> ValidateEmail(email)]
  /\ UNCHANGED <<formVars, localStorage, trapVars, activeElement, overlayVars,
                 otherVars>>

IsDigit(c) == c \in {"0", "1", "2", "3", "4", "5", "6", "7", "8", "9"}

\* [ -]
IsSeparator(c) == c \in {SP, "-"}

\* (\+34|0034|34)
CountryCodes == {<<"+", "3", "4">>, <<"0", "0", "3", "4">>, <<"3", "4">>}

StartsWith(s, p) == Len(p) <= Len(s) /\ SubSeq(s, 1, Len(p)) = p

\* One character through [ -]*(6|7)[ -]*([0-9][ -]*){8}$, as the number of
\* digits matched so far, DigitsInPhone + 1 once the match has failed.
PhoneStepAnyFirstDigit(n, c) ==
  IF n > DigitsInPhone THEN n
  ELSE IF IsSeparator(c) THEN n
  ELSE IF IsDigit(c) THEN n + 1
  ELSE DigitsInPhone + 1

PhoneStep(n, c) ==
  IF n > DigitsInPhone THEN n
  ELSE IF IsSeparator(c) THEN n
  ELSE IF n = 0 THEN (IF c \in {"6", "7"} THEN 1 ELSE DigitsInPhone + 1)
  ELSE IF IsDigit(c) THEN n + 1
  ELSE DigitsInPhone + 1

RECURSIVE PhoneRun(_, _, _)
PhoneRun(n, s, i) ==
  IF i > Len(s) THEN n ELSE PhoneRun(PhoneStep(n, s[i]), s, i + 1)

\* Utils.validatePhone: phoneRegex.test(phone), the optional group tried
\* with each country code and without one.
ValidatePhone(phone) ==
  \E code \in CountryCodes \cup {<<>>} :
    /\ StartsWith(phone, code)
    /\ PhoneRun(0, phone, Len(code) + 1) = DigitsInPhone

\* "612345678", "512345678"
PhoneExamples ==
  {<<"6", "1", "2", "3", "4", "5", "6", "7", "8">>,
   <<"5", "1", "2", "3", "4", "5", "6", "7", "8">>}

\* What follows the first digit: runs of digits around the right length,
\* plain, separated, or with a character that is neither.
PhoneTails ==
  {Rep("1", n) : n \in (DigitsInPhone - 2)..DigitsInPhone}
  \cup {Rep("1", 4) \o <<c>> \o Rep("0", n) : c \in {SP, "-", "\t", "a"},
                                             n \in 3..4}

PhoneInputs ==
  {code \o lead \o <<first>> \o tail \o trail :
     code \in CountryCodes \cup {<<>>, <<"+">>, <<"3", "5">>},
     lead \in {<<>>, <<SP>>},
     first \in {"5", "6", "7"},
     tail \in PhoneTails,
     trail \in {<<>>, <<"-">>, <<"x">>}}
  \cup PhoneExamples

\* A call of Utils.validatePhone, the one call of a run.
CallValidatePhone(phone) ==
  /\ ev.op = "init"
  /\ ev' = [op |-> "validatePhone", input |-> phone,
            result |-> ValidatePhone(phone)]
  /\ UNCHANGED <<formVars, localStorage, trapVars, activeElement, overlayVars,
                 otherVars>>

InitValidate ==
  /\ InitPage
  /\ containerN = 0
  /\ activeElement = Body
  /\ versiculoDom = TRUE
  /\ localStorage = [k \in LocalStorageKeys |-> Absent]

NextValidate ==
  \/ \E email \in EmailInputs : CallValidateEmail(email)
  \/ \E phone \in PhoneInputs : CallValidatePhone(phone)

SpecValidate == InitValidate /\ [][NextValidate]_vars

\* ------------------------------------------------------------- contact form
SendTimer ==
  [kind |-> "send", m |-> "contact", id |-> 0, delay |-> SendDelay, v |-> 0]

\* The message showFieldError leaves for each field, "none" when the check
\* passes, in the order validateContactForm runs the checks.
NombreError(v) ==
  IF Trim(v) = <<>> THEN "obligatorio"
  ELSE IF Len(Trim(v)) < MinNombreLen THEN "corto" ELSE "none"

EmailError(v) ==
  IF Trim(v) = <<>> THEN "obligatorio"
  ELSE IF ~ValidateEmail(Trim(v)) THEN "invalido" ELSE "none"

TelefonoError(v) ==
  IF Trim(v) # <<>> /\ ~ValidatePhone(Trim(v)) THEN "invalido" ELSE "none"

TemaError(v) == IF v = <<>> THEN "obligatorio" ELSE "none"

MensajeError(v) ==
  IF Trim(v) = <<>> THEN "obligatorio"
  ELSE IF Len(Trim(v)) < MinMensajeLen THEN "corto" ELSE "none"

PrivacidadError(checked) == IF checked THEN "none" ELSE "obligatorio"

CheckOrder ==
  <<"nombre", "email", "telefono", "tema", "mensaje", "privacidad">>

FieldError(c, f) ==
  CASE f = "nombre" -> NombreError(c.nombre)
    [] f = "email" -> EmailError(c.email)
    [] f = "telefono" -> TelefonoError(c.telefono)
    [] f = "tema" -> TemaError(c.tema)
    [] f = "mensaje" -> MensajeError(c.mensaje)
    [] f = "privacidad" -> PrivacidadError(c.privacidad)

\* The fields showFieldError is called for, were the checks to stop at the
\* first that fails.
FailingFieldsFirstOnly(c) ==
  LET failing == {i \in 1..Len(CheckOrder) : FieldError(c, CheckOrder[i]) # "none"}
  IN {CheckOrder[i] : i \in {j \in failing : \A k \in failing : j <= k}}

\* The fields showFieldError is called for in one validateContactForm.
FailingFields(c) ==
  {CheckOrder[i] :
     i \in {j \in 1..Len(CheckOrder) : FieldError(c, CheckOrder[j]) # "none"}}

\* The form after validateContactForm: showFieldError has marked the failing
\* fields; the others keep what they had.
Validated(c) ==
  [c EXCEPT
     !.errores = [f \in ContactFields |->
                    IF f \in FailingFields(c) THEN FieldError(c, f) ELSE @[f]],
     !.invalid = @ \cup FailingFields(c)]

\* validateContactForm's return value.
IsValid(c) == FailingFields(c) = {}

\* The form and its button once the simulated send resolves: success message,
\* form.reset(), and the finally block.
ContactSentButtonStuck(c) ==
  [ContactLoaded EXCEPT !.errores = c.errores, !.invalid = c.invalid,
                        !.disabled = TRUE, !.loading = TRUE,
                        !.confirmacion = TRUE]

ContactSent(c) ==
  [ContactLoaded EXCEPT !.errores = c.errores, !.invalid = c.invalid,
                        !.confirmacion = TRUE]

NombreInputs == {<<SP>>, <<SP, "A">>, <<"A", "l", SP>>}
ContactEmailInputs == {<<>>, <<"a", "@", "b">>, <<"a", "@", "b", ".", "c">>}
TelefonoInputs == {<<>>} \cup PhoneExamples
TemaInputs == {<<>>, <<"o">>}
MensajeInputs ==
  {<<>>, Rep("x", MinMensajeLen - 1), <<SP>> \o Rep("x", MinMensajeLen)}

TextFieldInputs ==
  [nombre |-> NombreInputs, email |-> ContactEmailInputs,
   telefono |-> TelefonoInputs, tema |-> TemaInputs,
   mensaje |-> MensajeInputs]

\* The input event of a field: the value changes and clearErrors runs.
InputContact(f, value) ==
  /\ contact[f] # value
  /\ contact' = [contact EXCEPT ![f] = value, !.errores[f] = "none",
                                !.invalid = @ \ {f}]
  /\ ev' = [op |-> "inputContact"]
  /\ UNCHANGED <<sideVars, shareVars, appVars, activeEntries, menuVars, formVars, localStorage, trapVars, activeElement, overlayVars,
                 verseVars, cookieVars, verseReady>>

\* The submit handler of #contactForm up to its await: validateContactForm
\* and, when it returns true, the start of submitContactForm.
SubmitHandler ==
  /\ Len(timers) < MaxTimers
  /\ IF IsValid(contact)
     THEN /\ contact' = [Validated(contact) EXCEPT !.disabled = TRUE,
                                                   !.loading = TRUE]
          /\ timers' = Append(timers, SendTimer)
     ELSE /\ contact' = Validated(contact)
          /\ UNCHANGED timers
  /\ ev' = [op |-> "submitContact", valid |-> IsValid(contact)]
  /\ UNCHANGED <<sideVars, shareVars, appVars, activeEntries, menuVars, formVars, localStorage, trapVars, activeElement,
                 stillModalVars, focusVars, opens, verseVars, cookieVars,
                 verseReady>>

\* The submit event of a click on the enabled submit button.
SubmitContact ==
  /\ ~contact.disabled
  /\ SubmitHandler

\* A submit event delivered while the button is disabled: requestSubmit()
\* or a dispatched event; the handler does not look at the button.
DispatchSubmit ==
  /\ contact.disabled
  /\ SubmitHandler

\* The simulated send resolves: the rest of submitContactForm.
FireSendTimer(i) ==
  /\ timers[i].kind = "send"
  /\ CanFire(i)
  /\ timers' = RemoveAt(timers, i)
  /\ contact' = ContactSent(contact)
  /\ notice' = "success"
  /\ ev' = [op |-> "timer", m |-> "contact", kind |-> "send", id |-> 0]
  /\ UNCHANGED <<sideVars, shareVars, appVars, activeEntries, menuVars, testimonios, formNombre, formTestimonio, localStorage,
                 trapVars, activeElement, stillModalVars, focusVars, opens,
                 verseVars, cookieVars, verseReady>>

NextContact ==
  \/ \E f \in DOMAIN TextFieldInputs :
       \E value \in TextFieldInputs[f] : InputContact(f, value)
  \/ \E checked \in BOOLEAN : InputContact("privacidad", checked)
  \/ SubmitContact
  \/ \E i \in 1..Len(timers) : FireSendTimer(i)

SpecContact == InitValidate /\ [][NextContact]_vars

NextContactEvents ==
  \/ NextContact
  \/ DispatchSubmit

SpecContactEvents == InitValidate /\ [][NextContactEvents]_vars

\* The event loop runs a timer's callback once its delay has passed.
SpecContactFair ==
  SpecContact /\ WF_vars(\E i \in 1..Len(timers) : FireSendTimer(i))

\* --------------------------------------------------------------- navigation
\* The ids of the observed section[id] and header[id] elements: "galeria"
\* has no menu entry.
SectionIds == {"inicio", "eventos", "galeria"}

\* The data-target of the .menu-item elements, one entry each: "#roto"
\* points at no element of the page.
NavTargets == {"inicio", "eventos", "roto"}

\* One IntersectionObserverEntry through the observer's callback.
SpyEntryNoClear(active, entry) ==
  IF entry.isIntersecting /\ entry.id \in NavTargets
  THEN active \cup {entry.id}
  ELSE active

SpyEntry(active, entry) ==
  IF entry.isIntersecting /\ entry.id \in NavTargets
  THEN {entry.id}
  ELSE active

\* entries.forEach of the callback.
RECURSIVE SpyEntries(_, _, _)
SpyEntries(active, entries, i) ==
  IF i > Len(entries) THEN active
  ELSE SpyEntries(SpyEntry(active, entries[i]), entries, i + 1)

ObserverEntry == [id : SectionIds, isIntersecting : BOOLEAN]

\* The entry lists of one callback.
RECURSIVE EntryLists(_)
EntryLists(n) ==
  IF n = 0 THEN {<<>>}
  ELSE LET shorter == EntryLists(n - 1)
       IN shorter \cup {Append(l, e) : l \in shorter, e \in ObserverEntry}

\* The IntersectionObserver callback of setupScrollSpy.
ObserverCallback(entries) ==
  /\ entries # <<>>
  /\ activeEntries' = SpyEntries(activeEntries, entries, 1)
  /\ ev' = [op |-> "observer", entries |-> entries]
  /\ UNCHANGED <<sideVars, shareVars, appVars, contact, menuVars, formVars, localStorage, trapVars,
                 activeElement, overlayVars, verseVars, cookieVars,
                 verseReady>>

\* Navigation.toggleMenu, from the click on .mobile-menu-toggle.
ToggleMenu ==
  /\ SetMenu(ToggledMenu(Menu))
  /\ bodyOverflow' = IF ~isMenuOpen THEN "hidden" ELSE ""
  /\ ev' = [op |-> "toggleMenu"]
  /\ UNCHANGED <<nonMenuVars, formVars, localStorage, trapVars,
                 activeElement, modalExists, display, visibleClass, ownTraps,
                 a11yTraps, galleryModals, escHandlers, timers, focusVars,
                 opens>>

\* The click on the .menu-item with this data-target, in a window that is
\* narrow (innerWidth <= 768) or not.
ClickMenuItem(target, narrow) ==
  /\ IF target \in SectionIds
     THEN /\ activeEntries' = {target}
          /\ IF narrow
             THEN /\ SetMenu(ClosedMenu(Menu))
                  /\ bodyOverflow' = IF isMenuOpen THEN "" ELSE bodyOverflow
             ELSE UNCHANGED <<menuVars, bodyOverflow>>
     ELSE UNCHANGED <<activeEntries, menuVars, bodyOverflow>>
  /\ ev' = [op |-> "menuClick", target |-> target, narrow |-> narrow]
  /\ UNCHANGED <<sideVars, shareVars, appVars, contact, formVars,
                 localStorage, trapVars, activeElement,
                 modalExists, display, visibleClass, ownTraps, a11yTraps,
                 galleryModals, escHandlers, timers, focusVars, opens,
                 verseVars, cookieVars, verseReady>>

\* A click on the page outside the menu, its toggle and every other
\* listener's element.
ClickOutside ==
  /\ DocumentClick(bodyOverflow)
  /\ ev' = [op |-> "clickOutside"]
  /\ UNCHANGED <<nonMenuVars, formVars, localStorage, trapVars,
                 activeElement, modalExists, display, visibleClass, ownTraps,
                 a11yTraps, galleryModals, escHandlers, timers, focusVars,
                 opens>>

NextNav ==
  \/ \E entries \in EntryLists(MaxEntries) : ObserverCallback(entries)
  \/ ToggleMenu
  \/ ClickOutside
  \/ PressEscape
  \/ \E target \in NavTargets, narrow \in BOOLEAN : ClickMenuItem(target, narrow)

SpecNav == InitValidate /\ [][NextNav]_vars

\* ------------------------------------------------- application and storage
TestimoniosKey == "testimonios_monte_olivos"
ContrastKey == "high-contrast"

\* restoreUserPreferences: the stored array replaces AppState.testimonios;
\* nothing stored, or a value JSON.parse throws on, leaves it.
RestoredTestimonios(current, stored) ==
  IF stored.kind = "json" THEN stored.val ELSE current

\* A BaseModule as its constructor leaves it, here a Navigation: registry
\* counts the entries of this.eventListeners for the click on
\* .mobile-menu-toggle, attached the listeners of this instance that the
\* toggle carries.
NewModule == [registry |-> 0, attached |-> 0]

\* BaseModule.addEventListener, with a handler created for the call.
AddEventListener(mod) ==
  [registry |-> mod.registry + 1, attached |-> mod.attached + 1]

\* BaseModule.destroy that only empties the registry.
DestroyKeepsListeners(mod) == [registry |-> 0, attached |-> mod.attached]

\* BaseModule.destroy: removeEventListener for every entry of the registry,
\* then the registry is emptied.
Destroy(mod) ==
  [registry |-> 0, attached |-> mod.attached - mod.registry]

\* this.modules.forEach(module => module.init()) over every module pushed so
\* far, eight per init call, a Navigation first and an AccessibilityManager
\* last. When getItem throws, the first AccessibilityManager aborts the
\* loop: only the Navigation before it has run.
InitModules(mods, readOk) ==
  IF readOk
  THEN [k \in DOMAIN mods |-> AddEventListener(mods[k])]
  ELSE [mods EXCEPT ![1] = AddEventListener(@)]

\* The toggle listeners of every Navigation instance.
RECURSIVE ToggleListeners(_)
ToggleListeners(mods) ==
  IF mods = <<>> THEN 0 ELSE Head(mods).attached + ToggleListeners(Tail(mods))

RECURSIVE ToggledTimes(_, _)
ToggledTimes(mn, n) ==
  IF n = 0 THEN mn ELSE ToggledTimes(ToggledMenu(mn), n - 1)

\* MonteOlivosApp.init. Every module attaches its listeners; the last one,
\* AccessibilityManager, reads high-contrast outside any try, and
\* restoreUserPreferences follows. readOk: localStorage.getItem does not
\* throw. ultimo_versiculo is not stored in these runs, so the daily check
\* of RecursosEspirituales.init changes nothing.
AppInit(readOk) ==
  /\ ~isInitialized
  /\ localStorage[VersiculoKey] = Absent
  /\ Len(navModules) < MaxInits
  /\ listening' = TRUE
  /\ navModules' = InitModules(Append(navModules, NewModule), readOk)
  /\ IF readOk
     THEN /\ highContrast' =
               (highContrast \/ localStorage[ContrastKey] = Json(TRUE))
          /\ testimonios' =
               RestoredTestimonios(testimonios, localStorage[TestimoniosKey])
          /\ isInitialized' = TRUE
          /\ UNCHANGED initFailed
     ELSE /\ initFailed' = TRUE
          /\ UNCHANGED <<highContrast, testimonios, isInitialized>>
  /\ ev' = [op |-> "appInit", readOk |-> readOk]
  /\ UNCHANGED <<formNombre, formTestimonio, notice, localStorage, trapVars,
                 activeElement, overlayVars, verseVars, cookieVars, verseReady,
                 contact, activeEntries, menuVars, shareVars, sideVars>>

\* MonteOlivosApp.destroy: the modules drop their listeners.
DestroyApp ==
  /\ isInitialized' = FALSE
  /\ listening' = FALSE
  /\ navModules' = [k \in DOMAIN navModules |-> Destroy(navModules[k])]
  /\ ev' = [op |-> "destroy"]
  /\ UNCHANGED <<highContrast, initFailed, formVars, localStorage, trapVars,
                 activeElement, overlayVars, verseVars, cookieVars, verseReady,
                 contact, activeEntries, menuVars, shareVars, sideVars>>

\* One click on .mobile-menu-toggle: every listener the toggle carries runs
\* toggleMenu.
ClickToggle ==
  LET n == ToggleListeners(navModules)
      mn == ToggledTimes(Menu, n)
  IN /\ SetMenu(mn)
     /\ bodyOverflow' = IF n = 0 THEN bodyOverflow
                        ELSE IF mn.open THEN "hidden" ELSE ""
     /\ ev' = [op |-> "toggleClick", handlers |-> n]
     /\ UNCHANGED <<nonMenuVars, formVars, localStorage, trapVars,
                    activeElement, modalExists, display, visibleClass,
                    ownTraps, a11yTraps, galleryModals, escHandlers, timers,
                    focusVars, opens>>

\* The click listener of #contrast-toggle. When setItem throws, the
\* exception leaves the listener before the notification is shown.
ClickContrastToggle(writeOk) ==
  /\ listening
  /\ highContrast' = ~highContrast
  /\ IF writeOk
     THEN /\ localStorage' =
               [localStorage EXCEPT ![ContrastKey] = Json(highContrast')]
          /\ notice' = "info"
     ELSE UNCHANGED <<localStorage, notice>>
  /\ ev' = [op |-> "contrastToggle", uncaught |-> ~writeOk]
  /\ UNCHANGED <<listening, navModules, isInitialized, initFailed,
                 testimonios,
                 formNombre, formTestimonio, trapVars, activeElement,
                 overlayVars, verseVars, cookieVars, verseReady, contact,
                 activeEntries, menuVars, shareVars, sideVars>>

\* The testimonial form of a page whose listeners are attached. After
\* destroy and a second init a submit event runs the listener once per
\* Forms module, which is this action taken again on the form as left.
SubmitTestimonioAttached(writeOk) ==
  /\ listening
  /\ SubmitTestimonio(writeOk)

AppNameInputs == {<<SP>>, <<SP, "A">>}
AppTextInputs == {Rep("x", MinTestimonioLen - 1), Rep("x", MinTestimonioLen)}

NextApp ==
  \/ \E readOk \in BOOLEAN : AppInit(readOk)
  \/ DestroyApp
  \/ ReloadPage
  \/ \E writeOk \in BOOLEAN : ClickContrastToggle(writeOk)
  \/ \E n \in AppNameInputs : FillNombre(n)
  \/ \E t \in AppTextInputs : FillTestimonio(t)
  \/ \E writeOk \in BOOLEAN : SubmitTestimonioAttached(writeOk)

SpecApp == InitValidate /\ [][NextApp]_vars

NextModules ==
  \/ \E readOk \in BOOLEAN : AppInit(readOk)
  \/ DestroyApp
  \/ ReloadPage
  \/ ClickToggle
  \/ ClickOutside
  \/ \E writeOk \in BOOLEAN : ClickContrastToggle(writeOk)

SpecModules == InitValidate /\ [][NextModules]_vars

\* ------------------------------------------------------------ event sharing
\* Titles of event cards, read from the page.
EventTitles == {"culto", "retiro", "vigilia", "bautismo"}

SharePromise(title, hasClipboard) ==
  [api |-> "share", title |-> title, hasClipboard |-> hasClipboard]

ClipboardPromise(title) ==
  [api |-> "clipboard", title |-> title, hasClipboard |-> TRUE]

\* EventManager.fallbackShare with the invitation to this event, q being the
\* promises still pending: with navigator.clipboard the write is started and
\* only its fulfilment is handled; without it the text is copied through a
\* textarea and the notification shown.
FallbackShare(title, hasClipboard, q) ==
  IF hasClipboard
  THEN /\ promises' = Append(q, ClipboardPromise(title))
       /\ UNCHANGED <<clipboard, notice>>
  ELSE /\ promises' = q
       /\ clipboard' = title
       /\ notice' = "success"

\* EventManager.shareEvent, in a browser with or without navigator.share
\* and navigator.clipboard.
ShareEvent(title, hasShare, hasClipboard) ==
  /\ Len(promises) < MaxPending
  /\ IF hasShare
     THEN /\ promises' = Append(promises, SharePromise(title, hasClipboard))
          /\ UNCHANGED <<clipboard, notice>>
     ELSE FallbackShare(title, hasClipboard, promises)
  /\ ev' = [op |-> "shareEvent", title |-> title,
            outcome |-> IF hasShare \/ hasClipboard THEN "pending"
                        ELSE "copied"]
  /\ UNCHANGED <<testimonios, formNombre, formTestimonio, localStorage,
                 trapVars, activeElement, overlayVars, verseVars, cookieVars,
                 verseReady, contact, activeEntries, menuVars, appVars,
                 sideVars>>

\* A pending promise is fulfilled (ok) or rejected.
SettlePromise(i, ok) ==
  LET pr == promises[i]
      q == RemoveAt(promises, i)
  IN /\ CASE pr.api = "share" /\ ok ->
               /\ promises' = q
               /\ UNCHANGED <<clipboard, notice>>
          [] pr.api = "share" /\ ~ok ->
               FallbackShare(pr.title, pr.hasClipboard, q)
          [] pr.api = "clipboard" /\ ok ->
               /\ promises' = q
               /\ clipboard' = pr.title
               /\ notice' = "success"
          [] pr.api = "clipboard" /\ ~ok ->
               /\ promises' = q
               /\ UNCHANGED <<clipboard, notice>>
     /\ ev' = [op |-> "settle", title |-> pr.title,
               outcome |->
                 CASE pr.api = "share" /\ ok -> "shared"
                   [] pr.api = "share" /\ ~ok ->
                        IF pr.hasClipboard THEN "pending" ELSE "copied"
                   [] pr.api = "clipboard" /\ ok -> "copied"
                   [] pr.api = "clipboard" /\ ~ok -> "nothing"]
     /\ UNCHANGED <<testimonios, formNombre, formTestimonio, localStorage,
                    trapVars, activeElement, overlayVars, verseVars,
                    cookieVars, verseReady, contact, activeEntries,
                    menuVars, appVars,
                 sideVars>>

NextShare ==
  \/ \E title \in EventTitles, hasShare \in BOOLEAN, hasClipboard \in BOOLEAN :
       ShareEvent(title, hasShare, hasClipboard)
  \/ \E i \in 1..Len(promises), ok \in BOOLEAN : SettlePromise(i, ok)

SpecShare == InitValidate /\ [][NextShare]_vars

\* --------------------------------------------------------- missing elements
\* One lookup of a handler: the element it asks the document for and what
\* the code does with a null result: "return" leaves the handler, "optional"
\* goes on without the element (?. or an if around its use), "none" uses the
\* result as it is.
Lookup(el, guard) == [el |-> el, guard |-> guard]

\* The lookups of the setup calls and handlers, in the order the code makes
\* them.
HandlerLookups ==
  [setupMenuToggle |->
     <<Lookup("toggle", "return"), Lookup("menu", "return")>>,
   toggleMenu |-> <<Lookup("toggleIcon", "none")>>,
   altM |-> <<Lookup("toggle", "optional")>>,
   altC |-> <<Lookup("contacto", "optional")>>,
   setupContactForm |-> <<Lookup("contactForm", "return")>>,
   submitContactForm |->
     <<Lookup("btnSubmit", "none"), Lookup("btnText", "none"),
       Lookup("btnLoading", "none")>>,
   setupTestimonioForm |-> <<Lookup("testimonioForm", "return")>>,
   getDonationMethod |->
     <<Lookup("donacionMetodo", "none"), Lookup("donacionH3", "none")>>,
   openEventModal |->
     <<Lookup("eventoH3", "none"), Lookup("eventoP1", "none"),
       Lookup("eventoP2", "none"), Lookup("eventoDescripcion", "optional")>>,
   handleOracionClick |-> <<Lookup("contacto", "none")>>]

Handlers == DOMAIN HandlerLookups

\* The elements a handler's listener is registered on: without them the
\* handler never runs.
ListensOn ==
  [h \in Handlers |->
     CASE h = "toggleMenu" -> {"toggle", "menu"}
       [] h = "submitContactForm" -> {"contactForm"}
       [] OTHER -> {}]

\* How a handler ends in a document with these elements: "done", "early"
\* after a guard returned, or "throws" on a property of null.
RECURSIVE RunLookups(_, _, _)
RunLookups(elements, steps, i) ==
  IF i > Len(steps) THEN "done"
  ELSE IF steps[i].el \in elements \/ steps[i].guard = "optional"
       THEN RunLookups(elements, steps, i + 1)
  ELSE IF steps[i].guard = "return" THEN "early"
  ELSE "throws"

RunHandler(h) ==
  /\ ListensOn[h] \subseteq present
  /\ ev' = [op |-> "handler", name |-> h,
            outcome |-> RunLookups(present, HandlerLookups[h], 1)]
  /\ UNCHANGED <<formVars, localStorage, trapVars, activeElement,
                 overlayVars, otherVars>>

\* The documents the script may be loaded in.
Documents ==
  {DomElements \ missing :
     missing \in {m \in SUBSET DomElements : Cardinality(m) <= MaxMissing}}

InitDom ==
  /\ InitLoaded
  /\ present \in Documents
  /\ tabButtons = GalleryTabs
  /\ tabPanels = GalleryTabs
  /\ GalleryLoaded
  /\ containerN = 0
  /\ activeElement = Body
  /\ versiculoDom = TRUE
  /\ localStorage = [k \in LocalStorageKeys |-> Absent]

\* The window 'error' listener of setupErrorHandling, for an event whose
\* error property is an Error or null, with or without a global gtag:
\* console.error, then the report, which reads e.error.message.
WindowError(hasError, gtagDefined) ==
  /\ ev' = [op |-> "errorEvent", hasError |-> hasError,
            gtag |-> gtagDefined,
            reported |-> gtagDefined /\ hasError,
            outcome |-> IF gtagDefined /\ ~hasError THEN "throws"
                        ELSE "done"]
  /\ UNCHANGED <<formVars, localStorage, trapVars, activeElement,
                 overlayVars, otherVars>>

\* The 'unhandledrejection' listener: console.error and preventDefault.
UnhandledRejection ==
  /\ ev' = [op |-> "rejection", outcome |-> "done"]
  /\ UNCHANGED <<formVars, localStorage, trapVars, activeElement,
                 overlayVars, otherVars>>

NextDom ==
  \/ \E h \in Handlers : RunHandler(h)
  \/ \E hasError \in BOOLEAN, gtagDefined \in BOOLEAN :
       WindowError(hasError, gtagDefined)
  \/ UnhandledRejection

SpecDom == InitDom /\ [][NextDom]_vars

\* ------------------------------------------------------ menu and modals
NextScroll ==
  \/ ToggleMenu
  \/ ClickOutside
  \/ \E card \in EventCards : OpenEventModal(card)
  \/ OpenImageModal
  \/ PressEscape
  \/ \E target \in ClickTargets : ClickModal("event", target)
  \/ \E id \in 1..Len(galleryModals), target \in ClickTargets :
       ClickImageModal(id, target)
  \/ \E i \in 1..Len(timers) : FireTimer(i)

SpecScroll == InitOverlay /\ [][NextScroll]_vars

\* ---------------------------------------------------- scroll-to-top button
\* Everything but the scroll button, the debounced function and the gallery.
nonWidgetVars ==
  <<formVars, localStorage, trapVars, activeElement, overlayVars, verseVars,
    cookieVars, verseReady, menuVars, contact, activeEntries, appVars,
    shareVars, contentVars, present>>

\* The positions a scroll event can report, on both sides of the threshold.
ScrollPositions == {0, 200, ScrollThreshold, ScrollThreshold + 1, 500}

\* One call of the function Utils.throttle returns, inThrottle being flag:
\* whether func is applied, inThrottle afterwards, the timers it arms.
ThrottledCall(flag) ==
  IF ~flag
  THEN [applies |-> TRUE, inThrottle |-> TRUE, arms |-> 1]
  ELSE [applies |-> FALSE, inThrottle |-> flag, arms |-> 0]

\* A scroll event of window at position y: the throttled toggleScrollButton.
ScrollEvent(y) ==
  /\ ~scrollStopped
  /\ scrolls < MaxScrolls
  /\ y # scrollY
  /\ scrollY' = y
  /\ scrolls' = scrolls + 1
  /\ LET t == ThrottledCall(inThrottle)
     IN /\ scrollVisible' = IF t.applies THEN y > ScrollThreshold
                            ELSE scrollVisible
        /\ inThrottle' = t.inThrottle
        /\ throttleTimers' = throttleTimers + t.arms
        /\ ev' = [op |-> "scroll", y |-> y, applied |-> t.applies]
  /\ UNCHANGED <<scrollStopped, debounceVars, galleryVars, nonWidgetVars>>

\* The timer of the throttle, limit ms after the call that ran func.
FireThrottleTimer ==
  /\ throttleTimers > 0
  /\ throttleTimers' = throttleTimers - 1
  /\ inThrottle' = FALSE
  /\ ev' = [op |-> "throttleTimer"]
  /\ UNCHANGED <<scrollY, scrollVisible, scrollStopped, scrolls,
                 debounceVars, galleryVars, nonWidgetVars>>

\* A click on #scroll-to-top: window.scrollTo({top: 0, behavior: 'smooth'}).
\* The positions the page passes through arrive as scroll events.
ClickScrollToTop ==
  /\ ~scrollStopped
  /\ ev' = [op |-> "scrollToTop"]
  /\ UNCHANGED <<scrollVars, debounceVars, galleryVars, nonWidgetVars>>

\* The last scroll event has been delivered.
StopScrolling ==
  /\ ~scrollStopped
  /\ scrollStopped' = TRUE
  /\ ev' = [op |-> "scrollEnd"]
  /\ UNCHANGED <<scrollY, scrollVisible, inThrottle, throttleTimers, scrolls,
                 debounceVars, galleryVars, nonWidgetVars>>

NextScrollTop ==
  \/ \E y \in ScrollPositions : ScrollEvent(y)
  \/ FireThrottleTimer
  \/ ClickScrollToTop
  \/ StopScrolling

SpecScrollTop == InitValidate /\ [][NextScrollTop]_vars

\* A timer the browser has armed is run.
SpecScrollTopFair == SpecScrollTop /\ WF_vars(FireThrottleTimer)

\* ------------------------------------------------------- Utils.debounce
\* The arguments the debounced function is called with.
DebounceArgs == 1..MaxArg

ClearTimeoutKeepsTimer(ts, id) == ts

\* clearTimeout(id) on the pending timers ts: the timer of that id is
\* dropped; an id that is unset or has fired already drops nothing.
ClearTimeout(ts, id) == SelectSeq(ts, LAMBDA t : t.id # id)

\* A call of the function Utils.debounce(func, wait) returns, with argument
\* a: clearTimeout(timeout), then timeout = setTimeout(..., wait). The calls
\* made while a wait is pending make up one burst.
DebouncedCall(a) ==
  /\ calls < MaxCalls
  /\ calls' = calls + 1
  /\ debounceTimers' = Append(ClearTimeout(debounceTimers, timeout),
                              [id |-> calls + 1, args |-> a])
  /\ timeout' = calls + 1
  /\ burst' = Append(burst, a)
  /\ burstsStarted' = IF burst = <<>> THEN burstsStarted + 1
                      ELSE burstsStarted
  /\ ev' = [op |-> "debouncedCall", args |-> a]
  /\ UNCHANGED <<runs, scrollVars, galleryVars, nonWidgetVars>>

\* The timer callback, wait ms after the call that armed it:
\* func.apply(this, args). Timers of one wait run in the order they were
\* armed; timeout keeps the id of the timer that ran.
FireDebounceTimer ==
  /\ debounceTimers # <<>>
  /\ debounceTimers' = Tail(debounceTimers)
  /\ runs' = runs + 1
  /\ burst' = <<>>
  /\ ev' = [op |-> "debounced", args |-> Head(debounceTimers).args]
  /\ UNCHANGED <<timeout, burstsStarted, calls, scrollVars, galleryVars,
                 nonWidgetVars>>

NextDebounce ==
  \/ \E a \in DebounceArgs : DebouncedCall(a)
  \/ FireDebounceTimer

SpecDebounce == InitValidate /\ [][NextDebounce]_vars

\* ------------------------------------------------------------ gallery tabs
\* Gallery.switchTab(tabName). Every .tab-btn loses its mark; the lookup of
\* [data-tab="tabName"] is used as it comes, so with no such element the call
\* ends there with a TypeError; the same holds for #galeria-tabName after
\* every panel has been hidden.
SwitchTab(tabName) ==
  /\ Len(tabTimers) < MaxTabTimers
  /\ IF tabName \notin tabButtons
     THEN /\ tabActive' = {}
          /\ tabSelected' = {}
          /\ ev' = [op |-> "switchTab", tab |-> tabName,
                    outcome |-> "throws"]
          /\ UNCHANGED <<panelShown, panelAriaShown, currentGalleryTab,
                         panelOpacity, tabTimers>>
     ELSE /\ tabActive' = {tabName}
          /\ tabSelected' = {tabName}
          /\ IF tabName \notin tabPanels
             THEN /\ panelShown' = {}
                  /\ panelAriaShown' = {}
                  /\ ev' = [op |-> "switchTab", tab |-> tabName,
                            outcome |-> "throws"]
                  /\ UNCHANGED <<currentGalleryTab, panelOpacity, tabTimers>>
             ELSE /\ panelShown' = {tabName}
                  /\ panelAriaShown' = {tabName}
                  /\ currentGalleryTab' = tabName
                  /\ panelOpacity' = [panelOpacity EXCEPT ![tabName] = "0"]
                  /\ tabTimers' = Append(tabTimers, tabName)
                  /\ ev' = [op |-> "switchTab", tab |-> tabName,
                            outcome |-> "done"]
  /\ UNCHANGED <<galleryDom, scrollVars, debounceVars, nonWidgetVars>>

\* A click on a .tab-btn, or Enter / Space on it, which clicks it:
\* switchTab(button.getAttribute('data-tab')).
ClickTab(button) ==
  /\ button \in tabButtons
  /\ SwitchTab(button)

\* switchTab called with a name no .tab-btn carries.
CallSwitchTab(tabName) ==
  /\ tabName \notin tabButtons
  /\ SwitchTab(tabName)

\* The 50 ms timer of switchTab: the panel fades in.
FireTabTimer ==
  /\ tabTimers # <<>>
  /\ tabTimers' = Tail(tabTimers)
  /\ panelOpacity' = [panelOpacity EXCEPT ![Head(tabTimers)] = "1"]
  /\ ev' = [op |-> "tabTimer", tab |-> Head(tabTimers)]
  /\ UNCHANGED <<galleryDom, tabState, scrollVars, debounceVars,
                 nonWidgetVars>>

\* The page with any tab buttons and panels around the initial tab's.
InitGallery ==
  /\ InitLoaded
  /\ present = DomElements
  /\ tabButtons \in {b \in SUBSET GalleryTabs : InitialGalleryTab \in b}
  /\ tabPanels \in {p \in SUBSET GalleryTabs : InitialGalleryTab \in p}
  /\ GalleryLoaded
  /\ containerN = 0
  /\ activeElement = Body
  /\ versiculoDom = TRUE
  /\ localStorage = [k \in LocalStorageKeys |-> Absent]

NextGallery ==
  \/ \E button \in GalleryTabs : ClickTab(button)
  \/ \E tabName \in GalleryTabs : CallSwitchTab(tabName)
  \/ FireTabTimer

SpecGallery == InitGallery /\ [][NextGallery]_vars

\* C3: when an event or donation modal finishes closing (its hide timer
\* runs and modal-closed is dispatched), the focus is back on the element
\* that had it when the modal was opened.
C3_FocusRestoredOnClose ==
  [][(ev'.op = "timer" /\ ev'.kind = "hide") =>
       activeElement' = preOpenFocus[ev'.m]]_vars

\* C4: a closed modal has no focus-trap listener left on its content: every
\* trap an opening installed is removed when the modal is closed.
C4_NoTrapAfterClose ==
  \A m \in Modals : display[m] = "none" => ownTraps[m] + a11yTraps[m] = 0

\* C5: the class "visible" is added only to a displayed modal, the display
\* is hidden only once the class is off, and a hidden modal never carries it.
C5_Lifecycle ==
  [][\A m \in Modals :
       /\ (visibleClass'[m] /\ ~visibleClass[m]) => display[m] = "block"
       /\ (display'[m] = "none" /\ display[m] = "block") => ~visibleClass[m]
       /\ display'[m] = "none" => ~visibleClass'[m]]_vars

\* C6: a click starts closing a modal (image, event or donation) only when it
\* is on the close button or its target is the backdrop itself; a click on
\* the content inside the backdrop changes no modal state.
C6_OnlyCloseOrBackdropCloses ==
  [][ev'.op = "click" =>
       /\ (timers' # timers \/ visibleClass' # visibleClass
           \/ galleryModals' # galleryModals)
            => ev'.target \in {"close", "backdrop"}
       /\ ev'.target \notin {"close", "backdrop"}
            => UNCHANGED <<modalVars, lastFocusedElement>>]_vars

\* The content of the open, visible event modal was clicked and so was the
\* content of an open image modal before it.
C6_Witness ==
  /\ ev.op = "click"
  /\ ev.target = "content"
  /\ ev.m = "event"
  /\ display["event"] = "block"
  /\ visibleClass["event"]
  /\ timers = <<>>
  /\ Len(galleryModals) = 1
  /\ galleryModals[1] = "open"

\* C7: on one calendar day the daily check rotates the verse at most once,
\* however often it runs and whatever ultimo_versiculo held.
C7_AtMostOneCheckRotationPerDay == checkRotations <= 1

\* C8: the daily check run on load calls cambiarVersiculo exactly when the
\* stored fecha differs from today's date string, a call that finds the verse
\* elements rotates, and with an equal fecha the displayed verse and the
\* stored record stay as they were.
C8_DailyCheckComparesDates ==
  [][ev'.op = "verificar" /\ localStorage[VersiculoKey].kind = "json" =>
       LET fecha == localStorage[VersiculoKey].val.fecha
       IN /\ ev'.called <=> fecha # today
          /\ (fecha # today /\ versiculoDom) =>
               /\ rotations' = rotations + 1
               /\ versiculoOpacity' = "0"
          /\ fecha = today =>
               UNCHANGED <<verseDom, localStorage, timers, rotations>>]_vars

C8_Witness ==
  /\ ev.op = "verificar"
  /\ ~ev.called
  /\ checkRotations = 1
  /\ localStorage[VersiculoKey].kind = "json"
  /\ localStorage[VersiculoKey].val.fecha = today

\* C9, as stated: the record is persisted only after the swap, so no stored
\* record belongs to a rotation whose swap is still pending.
C9_PersistedOnlyAfterSwap ==
  \A i \in 1..Len(timers) :
    timers[i].kind = "swap" => timers[i].id # persistedBy

\* C9, amended: the operation picks one of the six verses, fades the text out,
\* arms the swap and at once tries to persist {verse, date}; the swap callback
\* later shows the picked verse and fades it in without touching storage, and
\* when this operation's write is the latest to land, the stored verse is the
\* one swapped in.
C9_PickFadePersistThenSwap ==
  [][/\ (ev'.op \in {"cambiarVersiculo", "verificar"}
         /\ rotations' # rotations) =>
          /\ ev'.v \in 1..NumVersiculos
          /\ versiculoOpacity' = "0"
          /\ versiculoShown' = versiculoShown
          /\ timers' = Append(timers, SwapTimer(ev'.v, rotations'))
          /\ ev'.writeOk =>
               localStorage'[VersiculoKey] =
                 Json([versiculo |-> ev'.v, fecha |-> today])
          /\ ~ev'.writeOk => localStorage' = localStorage
     /\ (ev'.op = "timer" /\ ev'.kind = "swap") =>
          /\ versiculoOpacity' = "1"
          /\ localStorage' = localStorage
          /\ \E i \in 1..Len(timers) :
               /\ timers[i].id = ev'.id
               /\ versiculoShown' = timers[i].v
          /\ persistedBy = ev'.id =>
               localStorage[VersiculoKey].val.versiculo = versiculoShown'
    ]_vars

C9_Witness ==
  /\ ev.op = "timer"
  /\ ev.kind = "swap"
  /\ persistedBy = ev.id
  /\ versiculoOpacity = "1"
  /\ localStorage[VersiculoKey].kind = "json"
  /\ versiculoShown = localStorage[VersiculoKey].val.versiculo

C11_TagsOnlyWithConsentOnce ==
  [][/\ (gtmScripts' > gtmScripts \/ hotjarScripts' > hotjarScripts) =>
          \/ ev'.op = "applyCookiePreferences" /\ ev'.performance
          \/ ev'.op = "answerBanner" /\ ev'.accepted
          \/ /\ ev'.op = "cookieInit"
             /\ localStorage[CookieKey].kind = "json"
             /\ localStorage[CookieKey].val.accepted
     /\ (ev'.op = "applyCookiePreferences" /\ ~ev'.performance) =>
          UNCHANGED tagVars
     /\ gtmScripts' <= 1
     /\ hotjarScripts' <= 1
    ]_vars

C11_Witness ==
  /\ ev.op = "applyCookiePreferences"
  /\ ev.performance
  /\ gtmLoaded
  /\ hotjarLoaded
  /\ gtmScripts = 1
  /\ hotjarScripts = 1
  /\ cookieLoad = "stored"
  /\ localStorage[CookieKey].kind = "json"
  /\ localStorage[CookieKey].val.accepted

\* C12: a click on a donation button resolves the card's title to bizum when
\* the lower-cased title contains "bizum", otherwise to paypal when it
\* contains "paypal", otherwise to bank when it contains "transferencia",
\* otherwise to unknown; on unknown an error notification is shown and neither
\* a modal nor a window is opened.
C12_DonationMethod ==
  [][ev'.op = "donar" =>
       LET t == ToLowerCase(ev'.title)
           bizum == Includes(t, BizumWord)
           paypal == Includes(t, PaypalWord)
           bank == Includes(t, TransferenciaWord)
       IN /\ ev'.method = "bizum" <=> bizum
          /\ ev'.method = "paypal" <=> ~bizum /\ paypal
          /\ ev'.method = "bank" <=> ~bizum /\ ~paypal /\ bank
          /\ ev'.method = "unknown" <=> ~bizum /\ ~paypal /\ ~bank
          /\ ev'.title = BizumDonaAhora => ev'.method = "bizum"
          /\ ev'.method = "unknown" =>
               /\ notice' = "error"
               /\ ~ev'.window
               /\ UNCHANGED overlayVars]_vars

C12_Witness ==
  /\ ev.op = "donar"
  /\ ev.method = "unknown"
  /\ ev.title # <<>>
  /\ notice = "error"
  /\ display["donation"] = "none"
  /\ opens = 1

\* C13: validateEmail accepts a string exactly when it holds no white space
\* and exactly one "@", the "@" is not its first character, and some "." after
\* the "@" has at least one character between the "@" and itself and at least
\* one after it; "a@b.com" is accepted, "a@b" and "abc" are rejected.
C13_EmailForm ==
  ev.op = "validateEmail" =>
    LET s == ev.input
        ats == {i \in 1..Len(s) : s[i] = "@"}
        form ==
          /\ \A i \in 1..Len(s) : ~IsSpace(s[i])
          /\ Cardinality(ats) = 1
          /\ \E a \in ats :
               /\ a > 1
               /\ \E d \in (a + 2)..(Len(s) - 1) : s[d] = "."
    IN /\ ev.result <=> form
       /\ s = <<"a", "@", "b", ".", "c", "o", "m">> => ev.result
       /\ s \in {<<"a", "@", "b">>, <<"a", "b", "c">>} => ~ev.result

C13_Witness ==
  /\ ev.op = "validateEmail"
  /\ ev.input = <<"a", "@", ".", ".", "a">>
  /\ ev.result

\* C14: validatePhone accepts a string exactly when, past one of the country
\* codes +34, 0034, 34 or none, it holds only digits, spaces and hyphens, and
\* its digits are nine with a 6 or a 7 first; "612345678" is accepted and
\* "512345678" is rejected.
C14_PhoneForm ==
  ev.op = "validatePhone" =>
    LET s == ev.input
        form ==
          \E code \in {<<>>, <<"+", "3", "4">>, <<"0", "0", "3", "4">>,
                       <<"3", "4">>} :
            /\ Len(code) <= Len(s)
            /\ \A i \in 1..Len(code) : s[i] = code[i]
            /\ LET rest == SubSeq(s, Len(code) + 1, Len(s))
                   digits == SelectSeq(rest, IsDigit)
               IN /\ \A i \in 1..Len(rest) :
                       IsDigit(rest[i]) \/ rest[i] \in {SP, "-"}
                  /\ Len(digits) = 9
                  /\ digits[1] \in {"6", "7"}
    IN /\ ev.result <=> form
       /\ s = <<"6", "1", "2", "3", "4", "5", "6", "7", "8">> => ev.result
       /\ s = <<"5", "1", "2", "3", "4", "5", "6", "7", "8">> => ~ev.result

C14_Witness ==
  /\ ev.op = "validatePhone"
  /\ ev.input = <<"3", "4", SP, "6", "1", "1", "1", "1", "-", "0", "0", "0",
                  "0", "-">>
  /\ ev.result

\* C15: validateContactForm returns true exactly when all six checks pass
\* (name of two characters or more, valid e-mail, phone empty or valid, topic
\* chosen, message of ten characters or more, privacy box checked), and every
\* field whose check fails is marked invalid and given a message in that same
\* call, however many fields fail.
C15_AllChecksNoShortCircuit ==
  [][ev'.op = "submitContact" =>
       LET c == contact
           ok == [f \in ContactFields |->
                    CASE f = "nombre" -> Len(Trim(c.nombre)) >= 2
                      [] f = "email" ->
                           Trim(c.email) # <<>> /\ ValidateEmail(Trim(c.email))
                      [] f = "telefono" ->
                           Trim(c.telefono) = <<>>
                             \/ ValidatePhone(Trim(c.telefono))
                      [] f = "tema" -> c.tema # <<>>
                      [] f = "mensaje" -> Len(Trim(c.mensaje)) >= 10
                      [] f = "privacidad" -> c.privacidad]
       IN /\ ev'.valid <=> \A f \in ContactFields : ok[f]
          /\ \A f \in ContactFields :
               ~ok[f] => /\ f \in contact'.invalid
                         /\ contact'.errores[f] # "none"]_vars

C15_Witness ==
  /\ ev.op = "submitContact"
  /\ ~ev.valid
  /\ contact.invalid = ContactFields \ {"nombre"}
  /\ contact.telefono # <<>>
  /\ contact.errores["mensaje"] = "corto"
  /\ contact.errores["nombre"] = "none"

\* C16: a submission that passes validation disables the button, shows the
\* loading indicator and starts the simulated send with the fixed delay; the
\* send then completes: the form is cleared, the confirmation and the success
\* notification are shown, the button is enabled and the indicator hidden. A
\* submission that fails validation starts no send and leaves the fields.
C16_ValidSubmissionCompletes ==
  /\ [][/\ (ev'.op = "submitContact" /\ ev'.valid) =>
             /\ timers' = Append(timers, SendTimer)
             /\ timers'[Len(timers')].delay = SendDelay
             /\ contact'.disabled
             /\ contact'.loading
        /\ (ev'.op = "submitContact" /\ ~ev'.valid) =>
             /\ timers' = timers
             /\ \A f \in ContactFields : contact'[f] = contact[f]
             /\ ~contact'.disabled
             /\ ~contact'.loading
             /\ notice' = notice
        /\ (ev'.op = "timer" /\ ev'.kind = "send") =>
             /\ \A f \in ContactFields : contact'[f] = ContactLoaded[f]
             /\ contact'.confirmacion
             /\ notice' = "success"
             /\ ~contact'.disabled
             /\ ~contact'.loading
       ]_vars
  /\ (ev.op = "submitContact" /\ ev.valid)
       ~> (ev.op = "timer" /\ ev.kind = "send" /\ ~contact.disabled)

C16_Witness ==
  /\ ev.op = "timer"
  /\ ev.kind = "send"
  /\ contact.confirmacion
  /\ notice = "success"
  /\ ~contact.disabled
  /\ contact.mensaje = <<>>

\* C17: an observer callback leaves active exactly the entry of the last of
\* its intersecting sections that has a menu entry, and leaves the active
\* entry as it was when no such section is among them; at most one menu entry
\* is active after any callbacks and menu clicks.
C17_ScrollSpyOneActive ==
  [][/\ ev'.op = "observer" =>
          LET es == ev'.entries
              hits == {i \in 1..Len(es) :
                         es[i].isIntersecting /\ es[i].id \in NavTargets}
          IN IF hits = {} THEN activeEntries' = activeEntries
             ELSE \E i \in hits :
                    /\ \A j \in hits : j <= i
                    /\ activeEntries' = {es[i].id}
     /\ Cardinality(activeEntries') <= 1
    ]_vars

C17_Witness ==
  /\ ev.op = "observer"
  /\ Len(ev.entries) = 2
  /\ ev.entries[1].isIntersecting
  /\ ev.entries[1].id = "inicio"
  /\ ev.entries[2].isIntersecting
  /\ ev.entries[2].id = "eventos"
  /\ activeEntries = {"eventos"}
  /\ isMenuOpen

\* C18: no storage operation that throws lets its exception leave the event
\* listener it runs in, and none aborts the application's initialisation.
C18_StorageFailuresSwallowed ==
  [][/\ ev'.op = "contrastToggle" => ~ev'.uncaught
     /\ ev'.op = "appInit" => isInitialized'
     /\ ~initFailed']_vars

\* C19: AppState.testimonios never loses a record it held: but for a page
\* load, which starts the script over, every step leaves the array it had as
\* a prefix of the array it has.
C19_TestimoniosNeverLost ==
  [][ev'.op # "reload" =>
       /\ Len(testimonios') >= Len(testimonios)
       /\ SubSeq(testimonios', 1, Len(testimonios)) = testimonios]_vars

\* C20: no shareEvent call ends with nothing done: each step of a call either
\* leaves a promise pending, completes the native share, or copies the
\* invitation and shows the confirmation.
C20_ShareNeverSilent ==
  [][ev'.op \in {"shareEvent", "settle"} =>
       /\ ev'.outcome \in {"pending", "shared", "copied"}
       /\ ev'.outcome = "pending" => Len(promises') > 0
       /\ ev'.outcome = "copied" =>
            /\ clipboard' = ev'.title
            /\ notice' = "success"]_vars

\* C21: after every opening of the event modal, its description element is
\* present exactly when the event shown has a non-empty description, and the
\* title, time, location and both buttons are those of the event shown.
C21_EventContentMatchesCard ==
  [][ev'.op = "open" /\ ev'.m = "event" =>
       \E card \in EventCards :
         /\ card.title = ev'.card
         /\ eventContent'.title = card.title
         /\ eventContent'.time = card.time
         /\ eventContent'.location = card.location
         /\ eventContent'.calendar = card.title
         /\ eventContent'.share = card.title
         /\ (eventContent'.description # "absent") <=> (card.description # "")
         /\ card.description # "" =>
              eventContent'.description = card.description]_vars

\* C22: whatever elements the document lacks, no setup call and no click or
\* submit handler throws: each one completes or returns early.
C22_NoHandlerThrows ==
  [][ev'.op = "handler" => ev'.outcome \in {"done", "early"}]_vars

\* C23: the window error and unhandledrejection listeners never throw, and
\* the error listener reports to analytics exactly when a global gtag
\* exists.
C23_ErrorHandlersNeverThrow ==
  [][/\ ev'.op \in {"errorEvent", "rejection"} => ev'.outcome = "done"
     /\ ev'.op = "errorEvent" => (ev'.reported <=> ev'.gtag)]_vars

\* C24: while a cached modal has been opened and no close trigger has come
\* since (its own focus trap and its Escape listener are both still in
\* place, which a close click or an Escape would have removed), no timer
\* hides it, restores body scrolling and dispatches modal-closed.
C24_NoStaleHideAfterReopen ==
  [][ev'.op = "timer" /\ ev'.kind = "hide" =>
       ~(/\ ownTraps[ev'.m] >= 1
         /\ \E i \in 1..Len(escHandlers) : escHandlers[i].m = ev'.m)]_vars

\* C25: an Escape press while no modal is displayed arms no close timer (so
\* no modal-closed follows) and changes no modal state; an Escape press
\* while one modal is displayed, and not already closing, arms exactly one.
C25_EscapeClosesOpenModalOnce ==
  [][ev'.op = "escape" =>
       LET shown == {m \in Modals : display[m] = "block"}
           images == {id \in 1..Len(galleryModals) :
                        galleryModals[id] \in {"open", "fading"}}
           closing ==
             \/ \E m \in shown, i \in 1..Len(timers) : timers[i] = HideTimer(m)
             \/ \E id \in images : galleryModals[id] = "fading"
       IN /\ (Cardinality(shown) + Cardinality(images) = 1 /\ ~closing)
             => Len(timers') = Len(timers) + 1
          /\ (shown = {} /\ images = {})
             => /\ timers' = timers
                /\ visibleClass' = visibleClass
                /\ galleryModals' = galleryModals]_vars

\* C26: whenever the menu is open or a modal is displayed, body overflow is
\* "hidden".
C26_ScrollLockedWhileOverlayOpen ==
  (\/ isMenuOpen
   \/ \E m \in Modals : display[m] = "block"
   \/ \E id \in 1..Len(galleryModals) :
        galleryModals[id] \in {"open", "fading"})
  => bodyOverflow = "hidden"

\* C27: from a closed menu, after every toggle click, outside click, Escape
\* press and menu-item click, isMenuOpen holds exactly when the menu has the
\* class active and aria-expanded is "true"; an outside click on a closed
\* menu changes nothing; Escape closes the menu and focuses the toggle when
\* the menu is open and leaves menu and focus alone when it is closed.
C27_MenuStateConsistent ==
  [][/\ isMenuOpen' <=> menuActive'
     /\ isMenuOpen' <=> (ariaExpanded' = "true")
     /\ (ev'.op = "clickOutside" /\ ~isMenuOpen) =>
          /\ menuVars' = menuVars
          /\ bodyOverflow' = bodyOverflow
     /\ ev'.op = "escape" =>
          IF isMenuOpen
          THEN ~isMenuOpen' /\ activeElement' = Toggle
          ELSE menuVars' = menuVars /\ activeElement' = activeElement]_vars

C27_Witness ==
  /\ ev.op = "escape"
  /\ activeElement = Toggle
  /\ ~isMenuOpen
  /\ ~menuActive
  /\ ariaExpanded = "false"

\* C28: after every sequence of init and destroy calls the toggle carries at
\* most one toggleMenu listener, and one click on it flips the menu state
\* exactly once when a listener is attached.
C28_OneListenerPerModuleType ==
  [][/\ ToggleListeners(navModules') <= 1
     /\ (ev'.op = "toggleClick" /\ ev'.handlers >= 1) =>
          isMenuOpen' = ~isMenuOpen]_vars

\* C29: destroy leaves every module with an empty registry and none of its
\* registered listeners attached, so a click on the toggle then runs no
\* handler; a destroy that follows a destroy changes nothing.
C29_DestroyRemovesRegistered ==
  [][/\ ev'.op = "destroy" =>
          /\ \A k \in DOMAIN navModules' :
               navModules'[k] = [registry |-> 0, attached |-> 0]
          /\ ev.op = "destroy" =>
               /\ navModules' = navModules
               /\ isInitialized' = isInitialized
     /\ (ev.op = "destroy" /\ ev'.op = "toggleClick") =>
          /\ ev'.handlers = 0
          /\ menuVars' = menuVars]_vars

C29_Witness ==
  /\ ev.op = "toggleClick"
  /\ ev.handlers = 0
  /\ Len(navModules) = 2
  /\ ~isInitialized

C31_ButtonDisabledWhilePending ==
  (\E i \in 1..Len(timers) : timers[i] = SendTimer)
  => contact.disabled /\ contact.loading

\* C32: once scrolling has stopped, the scroll-to-top button eventually is
\* visible exactly when scrollY is above 300.
C32_VisibilityEventuallyMatches ==
  scrollStopped ~> (scrollVisible <=> scrollY > ScrollThreshold)

\* C33: the debounced function has at most one timer pending, one exactly
\* while a burst of calls is waiting; func runs only when no later call is
\* waiting, with the arguments of the last call of the burst, and once for
\* each burst.
C33_DebounceRunsLastCallOnce ==
  /\ [](/\ Len(debounceTimers) <= 1
        /\ (burst # <<>>) <=> (Len(debounceTimers) = 1)
        /\ runs = burstsStarted - (IF burst # <<>> THEN 1 ELSE 0))
  /\ [][ev'.op = "debounced" =>
          /\ debounceTimers' = <<>>
          /\ burst # <<>>
          /\ ev'.args = burst[Len(burst)]]_vars

\* A burst of two calls with different arguments has run func.
C33_Witness ==
  /\ ev.op = "debounced"
  /\ ev.args = 2
  /\ calls = 2
  /\ runs = 1

\* C34: a switchTab call for a tab that has a button and a panel leaves that
\* button the only active and selected one, its panel the only one shown and
\* AppState.currentGalleryTab naming it; a call for a tab with no button or no
\* panel leaves the active tab, the shown panel and currentGalleryTab as they
\* were.
C34_SwitchTabOneActiveOrUnchanged ==
  [][ev'.op = "switchTab" =>
       IF ev'.tab \in tabButtons \cap tabPanels
       THEN /\ tabActive' = {ev'.tab}
            /\ tabSelected' = {ev'.tab}
            /\ panelShown' = {ev'.tab}
            /\ currentGalleryTab' = ev'.tab
       ELSE UNCHANGED <<tabActive, tabSelected, panelShown,
                        currentGalleryTab>>]_vars

====
